---- MODULE Spec2Model ----
(***************************************************************************)
(* A model of the saucedemo page-object test suite: the WebDriver manager  *)
(* (utils/WebDriverManager), the base page wait/act primitives             *)
(* (pages/BasePage.ts), the login page object (pages/LoginPage.ts), the    *)
(* products page object (pages/ProductsPage) and the cart and checkout     *)
(* page object (pages/CartPage.ts), the configuration singleton            *)
(* (config/test.config), the evidence capture (utils/ScreenshotUtils), the *)
(* report generator (utils/ReportGenerator.ts) and the mocha root hooks.   *)
(* The browser behind selenium-webdriver and the site are the environment: *)
(* every driver call may succeed or throw, the page may change between     *)
(* calls, and the site answers clicks as the test suites expect it to.     *)
(***************************************************************************)
EXTENDS Integers, Sequences, FiniteSets, TLC

(***************************************************************************)
(* Bounds of the model.                                                    *)
(***************************************************************************)
\* sessions the Builder can hand out before the model stops building
MaxSessions == 3
\* time between two evaluations of a driver.wait condition, in ms
PollMs == 10000
\* keys an input field holds before the model stops typing into it
MaxFieldLen == 2
\* characters of the product names the id derivation is checked on
MaxNameLen == 3
\* rows of a list the page shows (inventory items, cart rows)
MaxRows == 2
\* files the screenshot directory holds before no further capture is started
MaxFiles == 6
\* tests of a run, results of a report
MaxTests == 2

(***************************************************************************)
(* WebDriverManager state.                                                 *)
(***************************************************************************)
VARIABLES
  driver,      \* WebDriverManager.driver: 0 is null, otherwise a session id
  live,        \* sessions built by the manager and not yet ended by quit()
  nextId,      \* number of sessions Builder.build() has produced
  quitCalled,  \* sessions on which WebDriver.quit() was invoked
  orphans,     \* sessions that were the stored handle when createDriver overwrote it
  onFailure,   \* config.getConfig().screenshots.onFailure
  active,      \* the flows (async callers) using the manager
  mflow,       \* per flow: where it is suspended and what it holds locally
  mlast        \* the manager call that completed last, as its caller saw it

mgrVars == <<driver, live, nextId, quitCalled, orphans, onFailure, active, mflow, mlast>>

(***************************************************************************)
(* The page under test and the page-object call in progress.               *)
(***************************************************************************)
VARIABLES
  dom,       \* the rendered page: per locator, what the driver would report
  ready,     \* document.readyState = 'complete'
  page,      \* the site page the browser shows
  submitted, \* the credentials the site got with the last click on Login
  cart,      \* the products the site holds in the shopping cart
  baseUrl,   \* config.getConfig().baseUrl, where the site is served
  volatile,  \* locators whose element the page itself shows, hides or removes
  pcall,     \* the page-object method in progress
  prim,      \* the BasePage primitive in progress and its position
  plog,      \* what the driver did for the method in progress or just finished
  presult    \* how the method that finished last ended

pageVars == <<dom, ready, page, submitted, cart, baseUrl, volatile, pcall, prim, plog, presult>>

(***************************************************************************)
(* Pure computations of the page objects, and reads of the rows a page     *)
(* lists (cart rows, inventory items).                                     *)
(***************************************************************************)
VARIABLES
  calc,      \* a computation on plain values: its input and what it gave
  rows,      \* the rows of the list the page shows, in page order
  labels,    \* the summary labels the page shows
  rd         \* the read of the rows in progress, and how the last one ended

readVars == <<calc, rows, labels, rd>>

(***************************************************************************)
(* The test run: configuration, evidence files, mocha hooks, the report.   *)
(***************************************************************************)
VARIABLES
  env,         \* process.env: BASE_URL, BROWSER, HEADLESS, CI
  instance,    \* Configuration.instance
  shots,       \* the files of ./reports/screenshots, in the order readdirSync lists them
  cap,         \* the captureFailureEvidence call in progress, or how the last one ended
  testResults, \* the hooks' module-level list of results
  util         \* the utility or hook call that completed last, and what it gave

runVars == <<env, instance, shots, cap, testResults, util>>

vars == <<mgrVars, pageVars, readVars, runVars>>

notManager == <<pageVars, readVars, runVars>>
notPage == <<mgrVars, readVars, runVars>>
notRead == <<mgrVars, pageVars, runVars>>
notRun == <<mgrVars, pageVars, readVars>>

\* `private driver: WebDriver | null = null`
NoDriver == 0

Flows == {1, 2}

Sessions == 1..MaxSessions

IdleFlow == [pc |-> "idle", before |-> NoDriver, target |-> NoDriver]

NoCall == [op |-> "none", flow |-> 0, before |-> NoDriver, raised |-> FALSE,
           val |-> NoDriver, quit |-> NoDriver, captured |-> FALSE, inner |-> "none",
           prev |-> "none"]

\* a completed call: what it returned or raised, the session it called quit()
\* on, whether it called the evidence capture, how the awaited call settled
Done(name, f, before, raised, val, quit, captured, inner) ==
  [op |-> name, flow |-> f, before |-> before, raised |-> raised, val |-> val,
   quit |-> quit, captured |-> captured, inner |-> inner, prev |-> mlast.op]

Idle(f) == f \in active /\ mflow[f].pc = "idle"

\* the manager as constructed, used by the flows in `use`, under a
\* configuration whose on-failure screenshot policy is one of `policies`
InitManager(use, policies) ==
  /\ driver = NoDriver
  /\ live = {}
  /\ nextId = 0
  /\ quitCalled = {}
  /\ orphans = {}
  /\ onFailure \in policies
  /\ active = use
  /\ mflow = [f \in Flows |-> IdleFlow]
  /\ mlast = NoCall

(***************************************************************************)
(* WebDriverManager operations.  Each await is a suspension point, so an   *)
(* async method is one action per segment between awaits.                  *)
(***************************************************************************)

\* the handle createDriver stores once Builder.build() has resolved
KeepExistingHandle(old, s) == IF old # NoDriver THEN old ELSE s
StoredAfterBuild(old, s) == s

\* createDriver up to `await builder.build()`
createDriver(f) ==
  /\ UNCHANGED notManager
  /\ Idle(f)
  /\ nextId < MaxSessions
  /\ mflow' = [mflow EXCEPT ![f] = [pc |-> "build", before |-> driver, target |-> NoDriver]]
  /\ UNCHANGED <<driver, live, nextId, quitCalled, orphans, onFailure, active, mlast>>

\* build() resolves and `this.driver = ...` runs, then setTimeouts is awaited;
\* or build() rejects and the error leaves createDriver before the assignment
createDriver_built(f) ==
  /\ UNCHANGED notManager
  /\ f \in active
  /\ mflow[f].pc = "build"
  /\ \E ok \in BOOLEAN :
       IF ok
       THEN LET s == nextId + 1 IN
            /\ nextId' = s
            /\ live' = live \cup {s}
            /\ driver' = StoredAfterBuild(driver, s)
            /\ orphans' = IF driver # NoDriver /\ driver' # driver
                          THEN orphans \cup {driver} ELSE orphans
            /\ mflow' = [mflow EXCEPT ![f].pc = "timeouts", ![f].target = s]
            /\ UNCHANGED mlast
       ELSE /\ mlast' = Done("createDriver", f, mflow[f].before, TRUE, NoDriver, NoDriver, FALSE,
                            "build failed")
            /\ mflow' = [mflow EXCEPT ![f] = IdleFlow]
            /\ UNCHANGED <<driver, live, nextId, orphans>>
  /\ UNCHANGED <<quitCalled, onFailure, active>>

\* `return this.driver`, once setTimeouts has resolved
ReturnsBuiltSession(f) == mflow[f].target
ReturnedHandle(f) == driver

\* whether createDriver raises once setTimeouts has settled: nothing catches
SetTimeoutsErrorIsCaught(ok) == FALSE
CreateDriverRaises(ok) == ~ok

\* setTimeouts resolves and `return this.driver` reads the field again;
\* or setTimeouts rejects and the error leaves createDriver
createDriver_timeouts(f) ==
  /\ UNCHANGED notManager
  /\ f \in active
  /\ mflow[f].pc = "timeouts"
  /\ \E ok \in BOOLEAN :
       mlast' = Done("createDriver", f, mflow[f].before, CreateDriverRaises(ok),
                     IF ok THEN ReturnedHandle(f) ELSE NoDriver, NoDriver, FALSE,
                     IF ok THEN "ok" ELSE "setTimeouts failed")
  /\ mflow' = [mflow EXCEPT ![f] = IdleFlow]
  /\ UNCHANGED <<driver, live, nextId, quitCalled, orphans, onFailure, active>>

\* `if (!this.driver) throw new Error('WebDriver not initialized...')`
GetDriverNeverRaises(d) == FALSE
GetDriverRaises(d) == d = NoDriver

getDriver(f) ==
  /\ UNCHANGED notManager
  /\ Idle(f)
  /\ mlast' = Done("getDriver", f, driver, GetDriverRaises(driver),
                   IF GetDriverRaises(driver) THEN NoDriver ELSE driver, NoDriver, FALSE,
                   "none")
  /\ UNCHANGED <<driver, live, nextId, quitCalled, orphans, onFailure, active, mflow>>

\* quitDriver up to `await this.driver.quit()`; without a handle it returns at once
quitDriver(f) ==
  /\ UNCHANGED notManager
  /\ Idle(f)
  /\ IF driver # NoDriver
     THEN /\ quitCalled' = quitCalled \cup {driver}
          /\ mflow' = [mflow EXCEPT ![f] = [pc |-> "quit", before |-> driver, target |-> driver]]
          /\ UNCHANGED mlast
     ELSE /\ mlast' = Done("quitDriver", f, driver, FALSE, NoDriver, NoDriver, FALSE, "none")
          /\ UNCHANGED <<quitCalled, mflow>>
  /\ UNCHANGED <<driver, live, nextId, orphans, onFailure, active>>

\* the handle after the try/catch/finally around quit(): `finally { this.driver = null }`
ClearOnlyWhenQuitSucceeds(ok) == IF ok THEN NoDriver ELSE driver
HandleAfterQuit(ok) == NoDriver

\* quit() settles: resolved (the session is gone), or rejected with the session
\* gone or still running; the catch logs, the finally clears the handle
quitDriver_finally(f) ==
  /\ UNCHANGED notManager
  /\ f \in active
  /\ mflow[f].pc = "quit"
  /\ \E outcome \in {"quit", "error_gone", "error_running"} :
       /\ live' = IF outcome = "error_running" THEN live ELSE live \ {mflow[f].target}
       /\ driver' = HandleAfterQuit(outcome = "quit")
       /\ mlast' = Done("quitDriver", f, mflow[f].before, FALSE, NoDriver,
                        mflow[f].target, FALSE,
                        IF outcome = "quit" THEN "ok" ELSE "quit failed")
  /\ mflow' = [mflow EXCEPT ![f] = IdleFlow]
  /\ UNCHANGED <<nextId, quitCalled, orphans, onFailure, active>>

\* `if (this.driver && config.getConfig().screenshots.onFailure)`
CaptureWheneverDriver(d, policy) == d # NoDriver
CaptureGuard(d, policy) == d # NoDriver /\ policy

\* captureFailureScreenshot up to `await ScreenshotUtils.captureFailureEvidence(...)`
captureFailureScreenshot(f) ==
  /\ UNCHANGED notManager
  /\ Idle(f)
  /\ IF CaptureGuard(driver, onFailure)
     THEN /\ mflow' = [mflow EXCEPT ![f] = [pc |-> "capture", before |-> driver, target |-> driver]]
          /\ UNCHANGED mlast
     ELSE /\ mlast' = Done("captureFailureScreenshot", f, driver, FALSE, NoDriver, NoDriver,
                          FALSE, "none")
          /\ UNCHANGED mflow
  /\ UNCHANGED <<driver, live, nextId, quitCalled, orphans, onFailure, active>>

\* whether the caller sees an error once captureFailureEvidence has settled:
\* the catch logs and swallows
CaptureErrorPropagates(ok) == ~ok
CaptureRaises(ok) == FALSE

captureFailureScreenshot_settled(f) ==
  /\ UNCHANGED notManager
  /\ f \in active
  /\ mflow[f].pc = "capture"
  /\ \E ok \in BOOLEAN :
       mlast' = Done("captureFailureScreenshot", f, mflow[f].before, CaptureRaises(ok),
                     NoDriver, NoDriver, TRUE,
                     IF ok THEN "ok" ELSE "capture failed")
  /\ mflow' = [mflow EXCEPT ![f] = IdleFlow]
  /\ UNCHANGED <<driver, live, nextId, quitCalled, orphans, onFailure, active>>

ManagerStep(f) ==
  \/ createDriver(f)
  \/ createDriver_built(f)
  \/ createDriver_timeouts(f)
  \/ getDriver(f)
  \/ quitDriver(f)
  \/ quitDriver_finally(f)
  \/ captureFailureScreenshot(f)
  \/ captureFailureScreenshot_settled(f)

(***************************************************************************)
(* The page under test: elements, results, primitives in progress.         *)
(***************************************************************************)
\* config timeout.explicit, which BasePage's constructor stores in this.timeout
explicit == 20000

\* config baseUrl when BASE_URL is not set
baseUrlDefault == "https://www.saucedemo.com"

(***************************************************************************)
(* JavaScript strings.  A string is the sequence of its characters.        *)
(***************************************************************************)
CharAt(s, i) == SubSeq(s, i, i)

\* the characters of s from position i on
From(s, i) == SubSeq(s, i, Len(s))

\* String.prototype.includes
Includes(s, frag) ==
  \E i \in 1..(Len(s) - Len(frag) + 1) : SubSeq(s, i, i + Len(frag) - 1) = frag

UpperCase == "ABCDEFGHIJKLMNOPQRSTUVWXYZ"
LowerCase == "abcdefghijklmnopqrstuvwxyz"

LowerChar(c) ==
  IF \E i \in 1..Len(UpperCase) : CharAt(UpperCase, i) = c
  THEN CharAt(LowerCase, CHOOSE i \in 1..Len(UpperCase) : CharAt(UpperCase, i) = c)
  ELSE c

\* String.prototype.toLowerCase
RECURSIVE toLowerCase(_)
toLowerCase(s) ==
  IF s = "" THEN "" ELSE LowerChar(CharAt(s, 1)) \o toLowerCase(From(s, 2))

\* the characters the regular expression class \s matches
IsWhitespace(c) == c \in {" ", "\t", "\n"}

\* s without the whitespace it starts with
RECURSIVE SkipWhitespace(_)
SkipWhitespace(s) ==
  IF s # "" /\ IsWhitespace(CharAt(s, 1)) THEN SkipWhitespace(From(s, 2)) ELSE s

\* s.replace(/\s+/g, by): every maximal run of whitespace becomes `by`
RECURSIVE ReplaceWhitespaceRuns(_, _)
ReplaceWhitespaceRuns(s, by) ==
  IF s = "" THEN ""
  ELSE IF IsWhitespace(CharAt(s, 1))
       THEN by \o ReplaceWhitespaceRuns(SkipWhitespace(s), by)
       ELSE CharAt(s, 1) \o ReplaceWhitespaceRuns(From(s, 2), by)

DecimalDigits == "0123456789"

\* the decimal numeral of a natural number, as the site prints counts
RECURSIVE Decimal(_)
Decimal(n) ==
  IF n < 10 THEN CharAt(DecimalDigits, n + 1)
  ELSE Decimal(n \div 10) \o CharAt(DecimalDigits, (n % 10) + 1)

IsDigit(c) == \E i \in 1..Len(DecimalDigits) : CharAt(DecimalDigits, i) = c
DigitValue(c) == (CHOOSE i \in 1..Len(DecimalDigits) : CharAt(DecimalDigits, i) = c) - 1

\* the longest prefix of s that consists of decimal digits
RECURSIVE LeadingDigits(_)
LeadingDigits(s) ==
  IF s # "" /\ IsDigit(CharAt(s, 1)) THEN CharAt(s, 1) \o LeadingDigits(From(s, 2)) ELSE ""

\* the number a string of decimal digits denotes
RECURSIVE DigitsValue(_)
DigitsValue(s) ==
  IF s = "" THEN 0
  ELSE DigitsValue(SubSeq(s, 1, Len(s) - 1)) * 10 + DigitValue(CharAt(s, Len(s)))

\* a JavaScript number: NaN, or the value v
NaN == [nan |-> TRUE, v |-> 0]
Num(n) == [nan |-> FALSE, v |-> n]

\* parseInt(s, 10): leading whitespace, an optional sign, then the digits up
\* to the first other character; NaN when there is no digit
parseInt(s) ==
  LET t == SkipWhitespace(s)
      signed == t # "" /\ CharAt(t, 1) \in {"-", "+"}
      digits == LeadingDigits(IF signed THEN From(t, 2) ELSE t)
  IN
  IF digits = "" THEN NaN
  ELSE IF signed /\ CharAt(t, 1) = "-" THEN Num(0 - DigitsValue(digits))
  ELSE Num(DigitsValue(digits))

\* Amounts.  A price or a total is held as its exact number of cents: the
\* double parseFloat gives for a text with two fraction digits, and the sums
\* and products of such doubles, lie within 1e-12 of that amount.

\* the cents a fraction part denotes: its first two digits, a missing second
\* one read as 0 (no text of the model carries more digits)
HundredthsOf(frac) ==
  IF frac = "" THEN 0
  ELSE IF Len(frac) = 1 THEN DigitValue(CharAt(frac, 1)) * 10
  ELSE DigitsValue(SubSeq(frac, 1, 2))

\* parseFloat(s): leading whitespace, an optional sign, digits, an optional
\* point and digits; the rest of the text is ignored; NaN when no digit
parseFloat(s) ==
  LET t == SkipWhitespace(s)
      signed == t # "" /\ CharAt(t, 1) \in {"-", "+"}
      u == IF signed THEN From(t, 2) ELSE t
      int == LeadingDigits(u)
      rest == From(u, Len(int) + 1)
      frac == IF rest # "" /\ CharAt(rest, 1) = "." THEN LeadingDigits(From(rest, 2)) ELSE ""
      cents == DigitsValue(int) * 100 + HundredthsOf(frac)
  IN
  IF int = "" /\ frac = "" THEN NaN
  ELSE IF signed /\ CharAt(t, 1) = "-" THEN Num(0 - cents)
  ELSE Num(cents)

\* s.replace('$', ''): the first dollar sign is taken out
RECURSIVE ReplaceFirstDollar(_)
ReplaceFirstDollar(s) ==
  IF s = "" THEN ""
  ELSE IF CharAt(s, 1) = "$" THEN From(s, 2)
  ELSE CharAt(s, 1) \o ReplaceFirstDollar(From(s, 2))

\* s.replace(/[^0-9.]/g, ''): only digits and points are kept
RECURSIVE KeepDigitsAndPoints(_)
KeepDigitsAndPoints(s) ==
  IF s = "" THEN ""
  ELSE IF IsDigit(CharAt(s, 1)) \/ CharAt(s, 1) = "."
       THEN CharAt(s, 1) \o KeepDigitsAndPoints(From(s, 2))
       ELSE KeepDigitsAndPoints(From(s, 2))

\* a + b and a * b on JavaScript numbers: NaN if an operand is NaN.  For
\* price * quantity the product of cents and a count is again cents.
Plus(a, b) == IF a.nan \/ b.nan THEN NaN ELSE Num(a.v + b.v)
Times(a, b) == IF a.nan \/ b.nan THEN NaN ELSE Num(a.v * b.v)

\* a > b and a < b: false when an operand is NaN
GreaterThan(a, b) == ~a.nan /\ ~b.nan /\ a.v > b.v
LessThan(a, b) == ~a.nan /\ ~b.nan /\ a.v < b.v

\* Math.abs(a - b) < 0.01 on doubles, where the amounts are exactly one cent
\* apart: the rounding of the operands decides.  Pairs <<a, b>> in cents, b
\* the double parsed from its text or summed from the parsed prices:
\* Math.abs(29.98 - 29.99) is 0.00999999999999801, Math.abs(30 - 29.99) is
\* 0.010000000000001563.
WithinAtOneCent == {<<2998, 2999>>, <<998, 999>>, <<1000, 999>>, <<3997, 3998>>}
NotWithinAtOneCent == {<<3000, 2999>>, <<3999, 3998>>, <<2998, 2997>>}

\* the values Math.abs(a - b) < 0.01 can have: false with NaN, true for equal
\* amounts, false from two cents on, and at one cent as the doubles round
Within(a, b) ==
  LET d == IF a.v >= b.v THEN a.v - b.v ELSE b.v - a.v IN
  IF a.nan \/ b.nan THEN {FALSE}
  ELSE IF d = 0 THEN {TRUE}
  ELSE IF d > 1 THEN {FALSE}
  ELSE IF <<a.v, b.v>> \in WithinAtOneCent THEN {TRUE}
  ELSE IF <<a.v, b.v>> \in NotWithinAtOneCent THEN {FALSE}
  ELSE BOOLEAN

\* an amount of cents as the site prints it: dollars, point, two digits
Money(cents) ==
  "$" \o Decimal(cents \div 100) \o "." \o Decimal((cents % 100) \div 10)
      \o Decimal(cents % 10)

(***************************************************************************)
(* Locators of the page objects.                                           *)
(***************************************************************************)
\* LoginPage locators
usernameInput == "user-name"
passwordInput == "password"
loginButton == "login-button"
errorMessage == "error"
errorButton == "error-button"
loginLogo == ".login_logo"

\* ProductsPage locators
pageTitle == ".title"
shoppingCart == ".shopping_cart_link"
cartBadge == ".shopping_cart_badge"
burgerMenu == "react-burger-menu-btn"
logoutLink == "logout_sidebar_link"

\* CartPage locators
cartItems == ".cart_item"
checkoutButton == "checkout"
continueShoppingButton == "continue-shopping"
firstNameInput == "first-name"
lastNameInput == "last-name"
postalCodeInput == "postal-code"
continueButton == "continue"
cancelButton == "cancel"
subtotalLabel == ".summary_subtotal_label"
taxLabel == ".summary_tax_label"
totalLabel == ".summary_total_label"
finishButton == "finish"
completeHeader == ".complete-header"
backHomeButton == "back-to-products"

\* the products the inventory page lists, in page order
Catalogue == <<"Sauce Labs Backpack", "Sauce Labs Bike Light">>
CatalogueNames == {Catalogue[i] : i \in 1..Len(Catalogue)}

\* the ids the site gives the add and remove buttons of its products
SiteAddButton ==
  [n \in CatalogueNames |->
     IF n = "Sauce Labs Backpack" THEN "add-to-cart-sauce-labs-backpack"
     ELSE "add-to-cart-sauce-labs-bike-light"]
SiteRemoveButton ==
  [n \in CatalogueNames |->
     IF n = "Sauce Labs Backpack" THEN "remove-sauce-labs-backpack"
     ELSE "remove-sauce-labs-bike-light"]

\* product names the suites may pass: the catalogue's, one of them in another
\* letter case and spacing, and a name the site does not sell
ProductNames == CatalogueNames \cup {"sauce labs  BACKPACK", "Sauce Labs Onesie"}

\* the characters of the names the id derivation is applied to exhaustively
NameAlphabet == {"S", "s", " ", "\t"}

RECURSIVE StringsUpTo(_)
StringsUpTo(n) ==
  IF n = 0 THEN {""}
  ELSE StringsUpTo(n - 1) \cup {c \o t : c \in NameAlphabet, t \in StringsUpTo(n - 1)}

\* every name of at most MaxNameLen characters
NameInputs == StringsUpTo(MaxNameLen)

\* `productName.toLowerCase().replace(/\s+/g, '-')`
NameWithoutCaseFolding(productName) == ReplaceWhitespaceRuns(productName, "-")
ProductId(productName) == ReplaceWhitespaceRuns(toLowerCase(productName), "-")

\* the derived id of every name the model passes, computed once
ProductIdOf == [n \in ProductNames \cup NameInputs |-> ProductId(n)]

\* By.id(`add-to-cart-${productId}`) and By.id(`remove-${productId}`)
AddButton(productName) == "add-to-cart-" \o ProductIdOf[productName]
RemoveButton(productName) == "remove-" \o ProductIdOf[productName]

\* the locator each by-name method builds from its argument
addProductToCartByNameLocator(productName) == AddButton(productName)
removeProductFromCartByNameLocator(productName) == RemoveButton(productName)
isProductInCartLocator(productName) == RemoveButton(productName)
removeItemFromCartLocator(productName) == RemoveButton(productName)

LoginLocators == {usernameInput, passwordInput, loginButton, errorMessage, errorButton, loginLogo}
HeaderLocators == {pageTitle, shoppingCart, cartBadge, burgerMenu, logoutLink}
CheckoutLocators ==
  {cartItems, checkoutButton, continueShoppingButton, firstNameInput, lastNameInput,
   postalCodeInput, continueButton, cancelButton, subtotalLabel, taxLabel, totalLabel,
   finishButton, completeHeader, backHomeButton}
ByNameLocators ==
  {AddButton(n) : n \in ProductNames} \cup {RemoveButton(n) : n \in ProductNames}
SiteButtons ==
  {SiteAddButton[n] : n \in CatalogueNames} \cup {SiteRemoveButton[n] : n \in CatalogueNames}

Locators ==
  LoginLocators \cup HeaderLocators \cup CheckoutLocators \cup ByNameLocators \cup SiteButtons

Element(present, displayed, enabled, value, text) ==
  [present |-> present, displayed |-> displayed, enabled |-> enabled,
   value |-> value, text |-> text]

Absent == Element(FALSE, FALSE, FALSE, <<>>, "")
Shown(text) == Element(TRUE, TRUE, TRUE, <<>>, text)
\* in the document but not rendered, as the entries of the closed menu
Hidden == Element(TRUE, FALSE, TRUE, <<>>, "")

\* the login page as the site serves it: the logo and the form, no error banner
FreshLoginPage ==
  [l \in Locators |->
     IF l \in {usernameInput, passwordInput, loginButton, loginLogo} THEN Shown("")
     ELSE Absent]

\* the header every page behind the login shows: menu button, closed menu,
\* cart link, and the badge with the number of products in the cart c
WithHeader(d, title, c) ==
  [d EXCEPT ![pageTitle] = Shown(title),
            ![burgerMenu] = Shown(""),
            ![logoutLink] = Hidden,
            ![shoppingCart] = Shown(""),
            ![cartBadge] = IF c = {} THEN Absent ELSE Shown(Decimal(Cardinality(c)))]

NoElements == [l \in Locators |-> Absent]

\* the inventory page: per product the add button, or the remove button when
\* the product is in the cart c
InventoryDom(c) ==
  WithHeader([l \in Locators |->
                IF \E n \in CatalogueNames :
                     \/ n \notin c /\ l = SiteAddButton[n]
                     \/ n \in c /\ l = SiteRemoveButton[n]
                THEN Shown("") ELSE Absent],
             "Products", c)

\* the cart page: per product in the cart a row with its remove button
CartDom(c) ==
  WithHeader([l \in Locators |->
                IF \/ l \in {checkoutButton, continueShoppingButton}
                   \/ l = cartItems /\ c # {}
                   \/ \E n \in c : l = SiteRemoveButton[n]
                THEN Shown("") ELSE Absent],
             "Your Cart", c)

\* checkout step one: the form
CheckoutInfoDom(c) ==
  WithHeader([l \in Locators |->
                IF l \in {firstNameInput, lastNameInput, postalCodeInput,
                          continueButton, cancelButton}
                THEN Shown("") ELSE Absent],
             "Checkout: Your Information", c)

\* checkout step two: the order's rows and the Finish and Cancel buttons
CheckoutReviewDom(c) ==
  WithHeader([l \in Locators |->
                IF \/ l \in {finishButton, cancelButton}
                   \/ l = cartItems /\ c # {}
                THEN Shown("") ELSE Absent],
             "Checkout: Overview", c)

\* the page shown once the order is placed; the cart is empty again
CheckoutCompleteDom ==
  WithHeader([l \in Locators |->
                IF l = completeHeader THEN Shown("Thank you for your order!")
                ELSE IF l = backHomeButton THEN Shown("")
                ELSE Absent],
             "Checkout: Complete!", {})

Pages == {"login", "products", "cart", "checkout-info", "checkout-review", "checkout-complete"}

\* what the site serves as page pg while the cart holds c
PageDom(pg, c) ==
  CASE pg = "login" -> FreshLoginPage
    [] pg = "products" -> InventoryDom(c)
    [] pg = "cart" -> CartDom(c)
    [] pg = "checkout-info" -> CheckoutInfoDom(c)
    [] pg = "checkout-review" -> CheckoutReviewDom(c)
    [] pg = "checkout-complete" -> CheckoutCompleteDom

\* the inventory page a successful login leads to
ProductsPageDom == InventoryDom(cart)

\* the path of each page under the base URL
PagePath(pg) ==
  CASE pg = "login" -> "/"
    [] pg = "products" -> "/inventory.html"
    [] pg = "cart" -> "/cart.html"
    [] pg = "checkout-info" -> "/checkout-step-one.html"
    [] pg = "checkout-review" -> "/checkout-step-two.html"
    [] pg = "checkout-complete" -> "/checkout-complete.html"

\* what driver.getCurrentUrl() reports
CurrentUrl == baseUrl \o PagePath(page)

Frame(msg, loc) == [msg |-> msg, loc |-> loc]
Cause(msg) == <<Frame(msg, "")>>

\* how a call ended: returned nothing, returned a value, or raised an error
\* whose message is the chain of wrappers around the cause
Result(kind, b, t, err) ==
  [kind |-> kind, bool |-> b, text |-> t, err |-> err, num |-> Num(0)]
Ok == Result("ok", FALSE, "", <<>>)
Number(n) == [Result("value", FALSE, "", <<>>) EXCEPT !.num = n]
Bool(b) == Result("value", b, "", <<>>)
Text(t) == Result("value", FALSE, t, <<>>)
Error(err) == Result("error", FALSE, "", err)

Event(ev, loc, keys, b) == [ev |-> ev, loc |-> loc, keys |-> keys, bool |-> b]

\* a `timeout?: number` argument: omitted, a number of ms, or Infinity
NoTimeout == [given |-> FALSE, inf |-> FALSE, ms |-> 0]
Ms(n) == [given |-> TRUE, inf |-> FALSE, ms |-> n]
Infinity == [given |-> TRUE, inf |-> TRUE, ms |-> 0]

\* whether JavaScript takes the argument for true in `timeout || ...`
Truthy(t) == t.given /\ (t.inf \/ t.ms # 0)

NoPrim == [name |-> "none", loc |-> "", timeout |-> NoTimeout, keys |-> <<>>,
           clearFirst |-> FALSE, was |-> <<>>, pc |-> 0, elapsed |-> 0]

\* a primitive called with its arguments; `was` is the content of the
\* element's input field at the call
Prim(name, loc, timeout, keys, clearFirst, d) ==
  [name |-> name, loc |-> loc, timeout |-> timeout, keys |-> keys,
   clearFirst |-> clearFirst, was |-> IF loc \in Locators THEN d[loc].value ELSE <<>>,
   pc |-> 1, elapsed |-> 0]

NoPCall == [name |-> "none", stage |-> 0, username |-> <<>>, password |-> <<>>,
            was |-> <<>>, args |-> <<>>, locals |-> <<>>, at |-> "", had |-> {}]

\* a page-object method called with its arguments; `was` is the content of
\* the username and password fields of d, the page at the call, `at` the
\* page the site is on and `had` the cart at the call
PCall(name, u, p, d) ==
  [name |-> name, stage |-> 1, username |-> u, password |-> p,
   was |-> <<d[usernameInput].value, d[passwordInput].value>>,
   args |-> <<>>, locals |-> <<>>, at |-> page, had |-> cart]

\* a page-object method called with other arguments than credentials; the
\* method keeps what its awaited calls returned in `locals`
CallWith(name, args, d) == [PCall(name, <<>>, <<>>, d) EXCEPT !.args = args]

NoResult == [call |-> NoPCall, prim |-> NoPrim, res |-> Result("none", FALSE, "", <<>>)]

PageIdle == pcall = NoPCall

\* the page objects as constructed on page pg of a site served at one of
\* `urls`, with the cart holding c; the page itself changes the elements in `vol`
InitPageAt(pg, c, urls, vol) ==
  /\ dom = PageDom(pg, c)
  /\ ready = TRUE
  /\ page = pg
  /\ submitted = <<>>
  /\ cart = c
  /\ baseUrl \in urls
  /\ volatile = vol
  /\ pcall = NoPCall
  /\ prim = NoPrim
  /\ plog = <<>>
  /\ presult = NoResult

\* the page objects as constructed on a freshly opened login page; the page
\* itself changes the elements in `vol`
InitPage(vol) ==
  /\ dom = FreshLoginPage
  /\ ready = TRUE
  /\ page = "login"
  /\ submitted = <<>>
  /\ cart = {}
  /\ baseUrl = baseUrlDefault
  /\ volatile = vol
  /\ pcall = NoPCall
  /\ prim = NoPrim
  /\ plog = <<>>
  /\ presult = NoResult

(***************************************************************************)
(* BasePage primitives: the driver calls each makes, in order, and what    *)
(* its catch block turns a failure into.                                   *)
(***************************************************************************)

\* `timeout || this.timeout`, the time handed to driver.wait
TimeoutAsPassed(t) == IF t.given THEN t ELSE Ms(0)
EffectiveTimeout(t) == IF Truthy(t) THEN t ELSE Ms(explicit)

findElementBody == <<"findElement">>

clickElementWithoutEnabledWait == <<"findElement", "waitVisible", "click">>
clickElementBody == <<"findElement", "waitVisible", "waitEnabled", "click">>

waitForElementBody == <<"locate", "waitVisible">>

typeTextNeverClears(clearFirst) == <<"findElement", "waitVisible", "sendKeys">>
typeTextBody(clearFirst) ==
  <<"findElement", "waitVisible">> \o (IF clearFirst THEN <<"clear">> ELSE <<>>)
    \o <<"sendKeys">>

getElementTextBody == <<"findElement", "waitVisible", "getText">>

isElementDisplayedBody == <<"findElement", "isDisplayed">>

isElementEnabledBody == <<"findElement", "isEnabled">>

waitForElementToDisappearBody == <<"waitGone">>

waitForPageLoadBody == <<"waitReady">>

getCurrentUrlBody == <<"getCurrentUrl">>

\* `await this.driver.sleep(500)` in a page object
sleepBody == <<"sleep">>

\* findElementsSafe: the elements matching now, without waiting for one
findElementsSafeBody == <<"findElements">>

Program(p) ==
  CASE p.name = "findElement" -> findElementBody
    [] p.name = "clickElement" -> clickElementBody
    [] p.name = "waitForElement" -> waitForElementBody
    [] p.name = "typeText" -> typeTextBody(p.clearFirst)
    [] p.name = "getElementText" -> getElementTextBody
    [] p.name = "isElementDisplayed" -> isElementDisplayedBody
    [] p.name = "isElementEnabled" -> isElementEnabledBody
    [] p.name = "waitForElementToDisappear" -> waitForElementToDisappearBody
    [] p.name = "waitForPageLoad" -> waitForPageLoadBody
    [] p.name = "getCurrentUrl" -> getCurrentUrlBody
    [] p.name = "sleep" -> sleepBody
    [] p.name = "findElementsSafe" -> findElementsSafeBody

WaitSteps == {"findElement", "locate", "waitVisible", "waitEnabled", "waitGone", "waitReady"}
CommandSteps == {"click", "clear", "sendKeys", "getText", "isDisplayed", "isEnabled"}
DriverSteps == {"getCurrentUrl", "sleep", "findElements"}

CurrentStep == Program(prim)[prim.pc]

\* what one evaluation of the awaited condition gives
Condition(step, loc) ==
  CASE step \in {"findElement", "locate"} -> IF dom[loc].present THEN "true" ELSE "false"
    [] step = "waitVisible" ->
         IF ~dom[loc].present THEN "stale"
         ELSE IF dom[loc].displayed THEN "true" ELSE "false"
    [] step = "waitEnabled" ->
         IF ~dom[loc].present THEN "stale"
         ELSE IF dom[loc].enabled THEN "true" ELSE "false"
    [] step = "waitGone" ->
         IF ~dom[loc].present \/ ~dom[loc].displayed THEN "true" ELSE "false"
    [] step = "waitReady" -> IF ready THEN "true" ELSE "false"

\* findElement is itself a call with a catch: an error of its wait reaches
\* the calling primitive already wrapped
StepError(step, loc, chain) ==
  IF step = "findElement" THEN <<Frame("Failed to find element", loc)>> \o chain ELSE chain

clickElementRethrows(loc, chain) == Error(chain)
clickElementCatch(loc, chain) == Error(<<Frame("Failed to click element", loc)>> \o chain)

isElementDisplayedRethrows(chain) == Error(chain)
isElementDisplayedCatch(chain) == Bool(FALSE)

isElementEnabledCatch(chain) == Bool(FALSE)

\* findElementsSafe gives the empty list when the driver call fails
findElementsSafeCatch(chain) == Number(Num(0))

\* the result of a primitive whose driver call threw
PrimCatch(p, chain) ==
  CASE p.name = "findElement" -> Error(chain)
    [] p.name = "clickElement" -> clickElementCatch(p.loc, chain)
    [] p.name = "waitForElement" -> Error(<<Frame("Element not visible", p.loc)>>)
    [] p.name = "typeText" -> Error(<<Frame("Failed to type text into", p.loc)>> \o chain)
    [] p.name = "getElementText" -> Error(<<Frame("Failed to get text from", p.loc)>> \o chain)
    [] p.name = "isElementDisplayed" -> isElementDisplayedCatch(chain)
    [] p.name = "isElementEnabled" -> isElementEnabledCatch(chain)
    [] p.name = "waitForElementToDisappear" ->
         Error(<<Frame("Element did not disappear", p.loc)>>)
    [] p.name \in {"waitForPageLoad", "getCurrentUrl", "sleep"} -> Error(chain)
    [] p.name = "findElementsSafe" -> findElementsSafeCatch(chain)

\* the number of elements the page has at loc: one cart row per product
ElementsAt(loc) ==
  IF ~dom[loc].present THEN 0 ELSE IF loc = cartItems THEN Cardinality(cart) ELSE 1

\* the result of a primitive whose last driver call returned b or t
PrimValue(p, b, t) ==
  CASE p.name \in {"getElementText", "getCurrentUrl"} -> Text(t)
    [] p.name = "findElementsSafe" -> Number(Num(ElementsAt(p.loc)))
    [] p.name \in {"isElementDisplayed", "isElementEnabled"} -> Bool(b)
    [] OTHER -> Ok

(***************************************************************************)
(* The site: what the login page does with a click.                        *)
(***************************************************************************)

\* the banner text the site answers a login attempt with; "" when it accepts
SiteLogin(u, p) ==
  IF u = <<>> THEN "Username is required"
  ELSE IF p = <<>> THEN "Password is required"
  ELSE IF u = <<"standard_user">> /\ p = <<"secret_sauce">> THEN ""
  ELSE IF u = <<"locked_out_user">> /\ p = <<"secret_sauce">> THEN "locked out"
  ELSE "do not match"

\* the site navigates to page pg, the cart holding c
Goto(pg, c) == [dom |-> PageDom(pg, c), page |-> pg, submitted |-> submitted, cart |-> c]

\* the checkout form is complete when none of its three fields is empty
FormComplete(d) ==
  /\ d[firstNameInput].value # <<>>
  /\ d[lastNameInput].value # <<>>
  /\ d[postalCodeInput].value # <<>>

\* the page after a click on the element at loc
AfterClick(loc) ==
  LET u == dom[usernameInput].value
      p == dom[passwordInput].value
  IN
  CASE loc = loginButton ->
         IF SiteLogin(u, p) = ""
         THEN [dom |-> ProductsPageDom, page |-> "products", submitted |-> <<u, p>>,
               cart |-> cart]
         ELSE [dom |-> [dom EXCEPT ![errorMessage] = Shown(SiteLogin(u, p)),
                                   ![errorButton] = Shown("")],
               page |-> page, submitted |-> <<u, p>>, cart |-> cart]
    [] loc = errorButton ->
         [dom |-> [dom EXCEPT ![errorMessage] = Absent, ![errorButton] = Absent],
          page |-> page, submitted |-> submitted, cart |-> cart]
    [] \E n \in CatalogueNames : loc = SiteAddButton[n] ->
         Goto(page, cart \cup {n \in CatalogueNames : loc = SiteAddButton[n]})
    [] \E n \in CatalogueNames : loc = SiteRemoveButton[n] ->
         Goto(page, cart \ {n \in CatalogueNames : loc = SiteRemoveButton[n]})
    [] loc = shoppingCart -> Goto("cart", cart)
    [] loc = burgerMenu ->
         [dom |-> [dom EXCEPT ![logoutLink] = Shown("")],
          page |-> page, submitted |-> submitted, cart |-> cart]
    [] loc = logoutLink -> Goto("login", cart)
    [] loc = checkoutButton -> Goto("checkout-info", cart)
    [] loc = continueShoppingButton -> Goto("products", cart)
    [] loc = continueButton ->
         IF FormComplete(dom) THEN Goto("checkout-review", cart)
         ELSE [dom |-> [dom EXCEPT ![errorMessage] = Shown("is required"),
                                   ![errorButton] = Shown("")],
               page |-> page, submitted |-> submitted, cart |-> cart]
    [] loc = cancelButton ->
         IF page = "checkout-info" THEN Goto("cart", cart) ELSE Goto("products", cart)
    [] loc = finishButton -> Goto("checkout-complete", {})
    [] loc = backHomeButton -> Goto("products", cart)
    [] OTHER -> [dom |-> dom, page |-> page, submitted |-> submitted, cart |-> cart]

(***************************************************************************)
(* LoginPage methods: which primitive each calls next, given how the       *)
(* previous one ended.                                                     *)
(***************************************************************************)

Finish(R) == [fin |-> TRUE, res |-> R, prim |-> NoPrim]
Then(pr) == [fin |-> FALSE, res |-> Ok, prim |-> pr]

\* login: enterUsername, enterPassword, clickLoginButton, each awaited, no catch
loginTypesUsernameTwice(call, R, d) ==
  IF R.kind = "error" THEN Finish(R)
  ELSE IF call.stage = 1
       THEN Then(Prim("typeText", passwordInput, NoTimeout, call.username, TRUE, d))
  ELSE IF call.stage = 2
       THEN Then(Prim("clickElement", loginButton, NoTimeout, <<>>, FALSE, d))
  ELSE Finish(Ok)
loginNext(call, R, d) ==
  IF R.kind = "error" THEN Finish(R)
  ELSE IF call.stage = 1
       THEN Then(Prim("typeText", passwordInput, NoTimeout, call.password, TRUE, d))
  ELSE IF call.stage = 2
       THEN Then(Prim("clickElement", loginButton, NoTimeout, <<>>, FALSE, d))
  ELSE Finish(Ok)

\* the first primitive login calls
loginFirst(call, d) ==
  Prim("typeText", usernameInput, NoTimeout, call.username, TRUE, d)

\* getErrorMessage: the probe, then the read only if the probe said displayed;
\* the catch around both returns ''
getErrorMessageWithoutCatch(call, R, d) ==
  IF R.kind = "error" THEN Finish(R)
  ELSE IF call.stage = 1
       THEN IF R.bool
            THEN Then(Prim("getElementText", errorMessage, NoTimeout, <<>>, FALSE, d))
            ELSE Finish(Text(""))
  ELSE Finish(R)
getErrorMessageNext(call, R, d) ==
  IF R.kind = "error" THEN Finish(Text(""))
  ELSE IF call.stage = 1
       THEN IF R.bool
            THEN Then(Prim("getElementText", errorMessage, NoTimeout, <<>>, FALSE, d))
            ELSE Finish(Text(""))
  ELSE Finish(R)

\* closeErrorMessage: the probe, then the click only if the probe said displayed
closeErrorMessageAlwaysClicks(call, R, d) ==
  IF R.kind = "error" THEN Finish(R)
  ELSE IF call.stage = 1
       THEN Then(Prim("clickElement", errorButton, NoTimeout, <<>>, FALSE, d))
  ELSE Finish(Ok)
closeErrorMessageNext(call, R, d) ==
  IF R.kind = "error" THEN Finish(R)
  ELSE IF call.stage = 1
       THEN IF R.bool
            THEN Then(Prim("clickElement", errorButton, NoTimeout, <<>>, FALSE, d))
            ELSE Finish(Ok)
  ELSE Finish(Ok)

\* isOnLoginPage: the URL, the logo probe and the button probe are all
\* awaited before the conjunction is formed; the catch returns false
isOnLoginPageIgnoresUrl(call, R, d) ==
  IF R.kind = "error" THEN Finish(Bool(FALSE))
  ELSE IF call.stage = 1
       THEN Then(Prim("isElementDisplayed", loginLogo, NoTimeout, <<>>, FALSE, d))
  ELSE IF call.stage = 2
       THEN Then(Prim("isElementDisplayed", loginButton, NoTimeout, <<>>, FALSE, d))
  ELSE Finish(Bool(call.locals[2].bool /\ R.bool))
isOnLoginPageNext(call, R, d) ==
  IF R.kind = "error" THEN Finish(Bool(FALSE))
  ELSE IF call.stage = 1
       THEN Then(Prim("isElementDisplayed", loginLogo, NoTimeout, <<>>, FALSE, d))
  ELSE IF call.stage = 2
       THEN Then(Prim("isElementDisplayed", loginButton, NoTimeout, <<>>, FALSE, d))
  ELSE LET url == call.locals[1].text
           logoDisplayed == call.locals[2].bool
           loginButtonDisplayed == R.bool
       IN Finish(Bool(/\ Includes(url, "saucedemo.com")
                      /\ logoDisplayed
                      /\ loginButtonDisplayed
                      /\ ~Includes(url, "inventory")))

(***************************************************************************)
(* ProductsPage methods.                                                   *)
(***************************************************************************)

\* isOnProductsPage: the URL, then the title probe; the catch returns false
isOnProductsPageNext(call, R, d) ==
  IF R.kind = "error" THEN Finish(Bool(FALSE))
  ELSE IF call.stage = 1
       THEN Then(Prim("isElementDisplayed", pageTitle, NoTimeout, <<>>, FALSE, d))
  ELSE LET url == call.locals[1].text
           titleDisplayed == R.bool
       IN Finish(Bool(Includes(url, "inventory.html") /\ titleDisplayed))

\* a method that awaits one primitive and returns what it gave
singleCallSwallowsError(call, R, d) == Finish(Ok)
singleCallNext(call, R, d) == Finish(R)

\* the catch of a by-name method: the error wrapped with the product name
byNameCatch(msg, call, R) == Finish(Error(<<Frame(msg, call.args[1])>> \o R.err))

addProductToCartByNameNext(call, R, d) ==
  IF R.kind = "error" THEN byNameCatch("Failed to add product", call, R) ELSE Finish(Ok)

removeProductFromCartByNameNext(call, R, d) ==
  IF R.kind = "error" THEN byNameCatch("Failed to remove product", call, R) ELSE Finish(Ok)

isProductInCartNext(call, R, d) ==
  IF R.kind = "error" THEN Finish(Bool(FALSE)) ELSE Finish(R)

\* getCartItemCount: the badge probe, then its text parsed; 0 without badge
getCartItemCountCountsDigits(call, R, d) ==
  IF R.kind = "error" THEN Finish(Number(Num(0)))
  ELSE IF call.stage = 1
       THEN IF R.bool
            THEN Then(Prim("getElementText", cartBadge, NoTimeout, <<>>, FALSE, d))
            ELSE Finish(Number(Num(0)))
  ELSE Finish(Number(Num(Len(R.text))))
getCartItemCountNext(call, R, d) ==
  IF R.kind = "error" THEN Finish(Number(Num(0)))
  ELSE IF call.stage = 1
       THEN IF R.bool
            THEN Then(Prim("getElementText", cartBadge, NoTimeout, <<>>, FALSE, d))
            ELSE Finish(Number(Num(0)))
  ELSE Finish(Number(parseInt(R.text)))

\* logout: openMenu (click, fixed delay), wait for the logout link, click it
logoutNext(call, R, d) ==
  IF R.kind = "error" THEN Finish(R)
  ELSE IF call.stage = 1 THEN Then(Prim("sleep", "", NoTimeout, <<>>, FALSE, d))
  ELSE IF call.stage = 2
       THEN Then(Prim("waitForElement", logoutLink, NoTimeout, <<>>, FALSE, d))
  ELSE IF call.stage = 3
       THEN Then(Prim("clickElement", logoutLink, NoTimeout, <<>>, FALSE, d))
  ELSE Finish(Ok)

(***************************************************************************)
(* CartPage methods.                                                       *)
(***************************************************************************)

removeItemFromCartNext(call, R, d) ==
  IF R.kind = "error" THEN byNameCatch("Failed to remove item", call, R) ELSE Finish(Ok)

\* fillCheckoutInformation: first name, last name, postal code, each cleared
\* and typed
fillCheckoutInformationNext(call, R, d) ==
  IF R.kind = "error" THEN Finish(R)
  ELSE IF call.stage = 1
       THEN Then(Prim("typeText", lastNameInput, NoTimeout, call.args[2], TRUE, d))
  ELSE IF call.stage = 2
       THEN Then(Prim("typeText", postalCodeInput, NoTimeout, call.args[3], TRUE, d))
  ELSE Finish(Ok)

\* completeCheckout: proceedToCheckout, fillCheckoutInformation,
\* continueToReview, finishOrder, each awaited, no catch
completeCheckoutSkipsReview(call, R, d) ==
  IF R.kind = "error" THEN Finish(R)
  ELSE IF call.stage = 1
       THEN Then(Prim("typeText", firstNameInput, NoTimeout, call.args[1], TRUE, d))
  ELSE IF call.stage = 2
       THEN Then(Prim("typeText", lastNameInput, NoTimeout, call.args[2], TRUE, d))
  ELSE IF call.stage = 3
       THEN Then(Prim("typeText", postalCodeInput, NoTimeout, call.args[3], TRUE, d))
  ELSE IF call.stage = 4
       THEN Then(Prim("clickElement", finishButton, NoTimeout, <<>>, FALSE, d))
  ELSE Finish(Ok)
completeCheckoutNext(call, R, d) ==
  IF R.kind = "error" THEN Finish(R)
  ELSE IF call.stage = 1
       THEN Then(Prim("typeText", firstNameInput, NoTimeout, call.args[1], TRUE, d))
  ELSE IF call.stage = 2
       THEN Then(Prim("typeText", lastNameInput, NoTimeout, call.args[2], TRUE, d))
  ELSE IF call.stage = 3
       THEN Then(Prim("typeText", postalCodeInput, NoTimeout, call.args[3], TRUE, d))
  ELSE IF call.stage = 4
       THEN Then(Prim("clickElement", continueButton, NoTimeout, <<>>, FALSE, d))
  ELSE IF call.stage = 5
       THEN Then(Prim("clickElement", finishButton, NoTimeout, <<>>, FALSE, d))
  ELSE Finish(Ok)

\* isCartEmpty: the count of CartPage.getCartItemCount compared with 0
isCartEmptyWhenNotEmpty(call, R, d) ==
  IF R.kind = "error" THEN Finish(R) ELSE Finish(Bool(R.num # Num(0)))
isCartEmptyNext(call, R, d) ==
  IF R.kind = "error" THEN Finish(R) ELSE Finish(Bool(R.num = Num(0)))

\* isOrderComplete: the probe of the completion header; the catch returns false
isOrderCompleteAlwaysTrue(call, R, d) == Finish(Bool(TRUE))
isOrderCompleteNext(call, R, d) ==
  IF R.kind = "error" THEN Finish(Bool(FALSE)) ELSE Finish(R)

\* where the method in progress goes once its current primitive ended with R
Resume(call, R, d) ==
  CASE call.name = "primitive" -> Finish(R)
    [] call.name = "login" -> loginNext(call, R, d)
    [] call.name = "getErrorMessage" -> getErrorMessageNext(call, R, d)
    [] call.name = "closeErrorMessage" -> closeErrorMessageNext(call, R, d)
    [] call.name = "isOnLoginPage" -> isOnLoginPageNext(call, R, d)
    [] call.name = "addProductToCartByName" -> addProductToCartByNameNext(call, R, d)
    [] call.name = "removeProductFromCartByName" ->
         removeProductFromCartByNameNext(call, R, d)
    [] call.name = "isProductInCart" -> isProductInCartNext(call, R, d)
    [] call.name = "getCartItemCount" -> getCartItemCountNext(call, R, d)
    [] call.name = "logout" -> logoutNext(call, R, d)
    [] call.name = "removeItemFromCart" -> removeItemFromCartNext(call, R, d)
    [] call.name = "fillCheckoutInformation" -> fillCheckoutInformationNext(call, R, d)
    [] call.name = "completeCheckout" -> completeCheckoutNext(call, R, d)
    [] call.name = "isOrderComplete" -> isOrderCompleteNext(call, R, d)
    [] call.name = "isCartEmpty" -> isCartEmptyNext(call, R, d)
    [] call.name = "isOnProductsPage" -> isOnProductsPageNext(call, R, d)
    [] call.name \in {"goToCart", "proceedToCheckout", "continueShopping",
                      "continueToReview", "cancelCheckout", "finishOrder",
                      "getCompletionMessage", "CartPage.getCartItemCount",
                      "isErrorDisplayed"} ->
         singleCallNext(call, R, d)

(***************************************************************************)
(* Steps of the call in progress.  Every driver call is awaited, so each   *)
(* is one action; the code between two awaits runs with the later one.     *)
(***************************************************************************)

\* the current primitive ended with R, the page being d
Return(R, d) ==
  LET k == Resume(pcall, R, d) IN
  IF k.fin
  THEN /\ presult' = [call |-> pcall, prim |-> prim, res |-> k.res]
       /\ pcall' = NoPCall
       /\ prim' = NoPrim
  ELSE /\ prim' = k.prim
       /\ pcall' = [pcall EXCEPT !.stage = @ + 1, !.locals = Append(@, R)]
       /\ UNCHANGED presult

\* the current driver call returned (b or t); the page is now d
StepOk(ev, b, t, d) ==
  /\ plog' = Append(plog, ev)
  /\ IF prim.pc < Len(Program(prim))
     THEN /\ prim' = [prim EXCEPT !.pc = @ + 1, !.elapsed = 0]
          /\ UNCHANGED <<pcall, presult>>
     ELSE Return(PrimValue(prim, b, t), d)

\* the current driver call threw
Throw(cause) ==
  /\ Return(PrimCatch(prim, StepError(CurrentStep, prim.loc, cause)), dom)
  /\ UNCHANGED plog

\* driver.wait evaluates its condition once more: resolved, thrown by the
\* condition, timed out, or polled again PollMs later.  A timeout of 0 or of
\* Infinity never times out (the clock is then not tracked); a negative one
\* is rejected before the first evaluation.
driverWait ==
  /\ pcall # NoPCall
  /\ CurrentStep \in WaitSteps
  /\ LET w == EffectiveTimeout(prim.timeout)
         c == Condition(CurrentStep, prim.loc)
     IN
     IF ~w.inf /\ w.ms < 0 THEN Throw(Cause("TypeError"))
     ELSE IF c = "true" THEN StepOk(Event(CurrentStep, prim.loc, <<>>, TRUE), TRUE, "", dom)
     ELSE IF c = "stale" THEN Throw(Cause("StaleElementReferenceError"))
     ELSE IF ~w.inf /\ w.ms # 0 /\ prim.elapsed >= w.ms THEN Throw(Cause("TimeoutError"))
     ELSE /\ prim' = [prim EXCEPT !.elapsed = IF w.inf \/ w.ms = 0 THEN @ ELSE @ + PollMs]
          /\ UNCHANGED <<pcall, plog, presult>>
  /\ UNCHANGED <<dom, ready, page, submitted, cart, baseUrl, volatile>>
  /\ UNCHANGED notPage

\* an element command settles: click, clear, sendKeys, getText, isDisplayed,
\* isEnabled on the element located earlier
elementCommand ==
  /\ pcall # NoPCall
  /\ CurrentStep \in CommandSteps
  /\ LET step == CurrentStep
         loc == prim.loc
         el == dom[loc]
     IN
     IF ~el.present
     THEN Throw(Cause("StaleElementReferenceError")) /\ UNCHANGED <<dom, page, submitted, cart>>
     ELSE IF step \in {"click", "clear", "sendKeys"} /\ ~el.displayed
     THEN Throw(Cause("ElementNotInteractableError")) /\ UNCHANGED <<dom, page, submitted, cart>>
     ELSE IF step \in {"clear", "sendKeys"} /\ ~el.enabled
     THEN Throw(Cause("InvalidElementStateError")) /\ UNCHANGED <<dom, page, submitted, cart>>
     ELSE CASE step = "click" ->
                 /\ dom' = AfterClick(loc).dom
                 /\ page' = AfterClick(loc).page
                 /\ submitted' = AfterClick(loc).submitted
                 /\ cart' = AfterClick(loc).cart
                 /\ StepOk(Event("click", loc, <<>>, FALSE), FALSE, "", AfterClick(loc).dom)
            [] step = "clear" ->
                 /\ dom' = [dom EXCEPT ![loc].value = <<>>]
                 /\ UNCHANGED <<page, submitted, cart>>
                 /\ StepOk(Event("clear", loc, <<>>, FALSE), FALSE, "",
                           [dom EXCEPT ![loc].value = <<>>])
            [] step = "sendKeys" ->
                 /\ dom' = [dom EXCEPT ![loc].value = @ \o prim.keys]
                 /\ UNCHANGED <<page, submitted, cart>>
                 /\ StepOk(Event("sendKeys", loc, prim.keys, FALSE), FALSE, "",
                           [dom EXCEPT ![loc].value = @ \o prim.keys])
            [] step = "getText" ->
                 /\ UNCHANGED <<dom, page, submitted, cart>>
                 /\ StepOk(Event("getText", loc, <<>>, FALSE), FALSE, el.text, dom)
            [] step = "isDisplayed" ->
                 /\ UNCHANGED <<dom, page, submitted, cart>>
                 /\ StepOk(Event("isDisplayed", loc, <<>>, el.displayed), el.displayed, "", dom)
            [] step = "isEnabled" ->
                 /\ UNCHANGED <<dom, page, submitted, cart>>
                 /\ StepOk(Event("isEnabled", loc, <<>>, el.enabled), el.enabled, "", dom)
  /\ UNCHANGED <<ready, baseUrl, volatile>>
  /\ UNCHANGED notPage

\* a command of the driver itself settles: getCurrentUrl, sleep, findElements
driverCommand ==
  /\ pcall # NoPCall
  /\ CurrentStep \in DriverSteps
  /\ IF CurrentStep = "getCurrentUrl"
     THEN StepOk(Event("getCurrentUrl", "", <<>>, FALSE), FALSE, CurrentUrl, dom)
     ELSE IF CurrentStep = "findElements"
     THEN StepOk(Event("findElements", prim.loc, <<>>, FALSE), FALSE, "", dom)
     ELSE StepOk(Event("sleep", "", <<>>, FALSE), FALSE, "", dom)
  /\ UNCHANGED <<dom, ready, page, submitted, cart, baseUrl, volatile>>
  /\ UNCHANGED notPage

\* the driver call in progress fails for a reason of the driver's own (the
\* session is gone, the browser does not answer)
driverCallFails ==
  /\ pcall # NoPCall
  /\ Throw(Cause("WebDriverError"))
  /\ UNCHANGED <<dom, ready, page, submitted, cart, baseUrl, volatile>>
  /\ UNCHANGED notPage

\* the page shows, hides, enables, disables, removes or inserts an element by
\* itself, or its document starts or finishes loading
pageChanges ==
  /\ \/ \E l \in volatile \cap Locators, e \in {<<FALSE, FALSE, FALSE>>} \cup
                                   ({TRUE} \X BOOLEAN \X BOOLEAN) :
          /\ dom' = [dom EXCEPT ![l].present = e[1], ![l].displayed = e[2],
                                ![l].enabled = e[3]]
          /\ dom' # dom
          /\ UNCHANGED ready
     \/ /\ "document" \in volatile
        /\ ready' = ~ready
        /\ UNCHANGED dom
  /\ UNCHANGED <<page, submitted, cart, baseUrl, volatile, pcall, prim, plog, presult>>
  /\ UNCHANGED notPage

(***************************************************************************)
(* Calls of the page objects.                                              *)
(***************************************************************************)

\* a BasePage primitive is called on its own
StartPrimitive(pr) ==
  /\ PageIdle
  /\ pcall' = PCall("primitive", <<>>, <<>>, dom)
  /\ prim' = pr
  /\ plog' = <<>>
  /\ presult' = NoResult
  /\ UNCHANGED <<dom, ready, page, submitted, cart, baseUrl, volatile>>
  /\ UNCHANGED notPage

\* a LoginPage method is called; pr is the first primitive it calls
StartMethod(call, pr) ==
  /\ PageIdle
  /\ pcall' = call
  /\ prim' = pr
  /\ plog' = <<>>
  /\ presult' = NoResult
  /\ UNCHANGED <<dom, ready, page, submitted, cart, baseUrl, volatile>>
  /\ UNCHANGED notPage

findElement(loc, timeout) ==
  /\ PageIdle
  /\ StartPrimitive(Prim("findElement", loc, timeout, <<>>, FALSE, dom))

clickElement(loc, timeout) ==
  /\ PageIdle
  /\ StartPrimitive(Prim("clickElement", loc, timeout, <<>>, FALSE, dom))

waitForElement(loc, timeout) ==
  /\ PageIdle
  /\ StartPrimitive(Prim("waitForElement", loc, timeout, <<>>, FALSE, dom))

\* the model types only what the field can still hold
typeText(loc, keys, clearFirst) ==
  /\ Len(keys) + (IF clearFirst THEN 0 ELSE Len(dom[loc].value)) <= MaxFieldLen
  /\ StartPrimitive(Prim("typeText", loc, NoTimeout, keys, clearFirst, dom))

getElementText(loc) ==
  /\ PageIdle
  /\ StartPrimitive(Prim("getElementText", loc, NoTimeout, <<>>, FALSE, dom))

isElementDisplayed(loc) ==
  /\ PageIdle
  /\ StartPrimitive(Prim("isElementDisplayed", loc, NoTimeout, <<>>, FALSE, dom))

isElementEnabled(loc) ==
  /\ PageIdle
  /\ StartPrimitive(Prim("isElementEnabled", loc, NoTimeout, <<>>, FALSE, dom))

waitForElementToDisappear(loc, timeout) ==
  /\ PageIdle
  /\ StartPrimitive(Prim("waitForElementToDisappear", loc, timeout, <<>>, FALSE, dom))

waitForPageLoad(timeout) ==
  /\ PageIdle
  /\ StartPrimitive(Prim("waitForPageLoad", "document", timeout, <<>>, FALSE, dom))

\* navigateTo(baseUrl): driver.get loads the login page afresh, or throws
navigateTo ==
  /\ PageIdle
  /\ plog' = <<>>
  /\ \E ok \in BOOLEAN :
       IF ok
       THEN /\ dom' = FreshLoginPage
            /\ page' = "login"
            /\ ready' = TRUE
            /\ presult' = [call |-> PCall("navigateTo", <<>>, <<>>, dom), prim |-> NoPrim, res |-> Ok]
       ELSE /\ presult' = [call |-> PCall("navigateTo", <<>>, <<>>, dom), prim |-> NoPrim,
                           res |-> Error(Cause("WebDriverError"))]
            /\ UNCHANGED <<dom, page, ready>>
  /\ UNCHANGED <<submitted, cart, baseUrl, volatile, pcall, prim>>
  /\ UNCHANGED notPage

login(username, password) ==
  /\ PageIdle
  /\ StartMethod(PCall("login", username, password, dom),
                 loginFirst(PCall("login", username, password, dom), dom))

getErrorMessage ==
  /\ PageIdle
  /\ StartMethod(PCall("getErrorMessage", <<>>, <<>>, dom),
                 Prim("isElementDisplayed", errorMessage, NoTimeout, <<>>, FALSE, dom))

isErrorDisplayed ==
  /\ PageIdle
  /\ StartMethod(CallWith("isErrorDisplayed", <<>>, dom),
                 Prim("isElementDisplayed", errorMessage, NoTimeout, <<>>, FALSE, dom))

isOnProductsPage ==
  /\ PageIdle
  /\ StartMethod(CallWith("isOnProductsPage", <<>>, dom),
                 Prim("getCurrentUrl", "", NoTimeout, <<>>, FALSE, dom))

closeErrorMessage ==
  /\ PageIdle
  /\ StartMethod(PCall("closeErrorMessage", <<>>, <<>>, dom),
                 Prim("isElementDisplayed", errorButton, NoTimeout, <<>>, FALSE, dom))

isOnLoginPage ==
  /\ PageIdle
  /\ StartMethod(CallWith("isOnLoginPage", <<>>, dom),
                 Prim("getCurrentUrl", "", NoTimeout, <<>>, FALSE, dom))

logout ==
  /\ PageIdle
  /\ StartMethod(CallWith("logout", <<>>, dom),
                 Prim("clickElement", burgerMenu, NoTimeout, <<>>, FALSE, dom))

addProductToCartByName(productName) ==
  /\ PageIdle
  /\ StartMethod(CallWith("addProductToCartByName", <<productName>>, dom),
                 Prim("clickElement", addProductToCartByNameLocator(productName), NoTimeout,
                      <<>>, FALSE, dom))

removeProductFromCartByName(productName) ==
  /\ PageIdle
  /\ StartMethod(CallWith("removeProductFromCartByName", <<productName>>, dom),
                 Prim("clickElement", removeProductFromCartByNameLocator(productName),
                      NoTimeout, <<>>, FALSE, dom))

isProductInCart(productName) ==
  /\ PageIdle
  /\ StartMethod(CallWith("isProductInCart", <<productName>>, dom),
                 Prim("isElementDisplayed", isProductInCartLocator(productName), NoTimeout,
                      <<>>, FALSE, dom))

getCartItemCount ==
  /\ PageIdle
  /\ StartMethod(CallWith("getCartItemCount", <<>>, dom),
                 Prim("isElementDisplayed", cartBadge, NoTimeout, <<>>, FALSE, dom))

goToCart ==
  /\ PageIdle
  /\ StartMethod(CallWith("goToCart", <<>>, dom),
                 Prim("clickElement", shoppingCart, NoTimeout, <<>>, FALSE, dom))

removeItemFromCart(productName) ==
  /\ PageIdle
  /\ StartMethod(CallWith("removeItemFromCart", <<productName>>, dom),
                 Prim("clickElement", removeItemFromCartLocator(productName), NoTimeout,
                      <<>>, FALSE, dom))

\* CartPage.getCartItemCount: the number of cart rows
CartPage_getCartItemCount ==
  /\ PageIdle
  /\ StartMethod(CallWith("CartPage.getCartItemCount", <<>>, dom),
                 Prim("findElementsSafe", cartItems, NoTimeout, <<>>, FALSE, dom))

isCartEmpty ==
  /\ PageIdle
  /\ StartMethod(CallWith("isCartEmpty", <<>>, dom),
                 Prim("findElementsSafe", cartItems, NoTimeout, <<>>, FALSE, dom))

proceedToCheckout ==
  /\ PageIdle
  /\ StartMethod(CallWith("proceedToCheckout", <<>>, dom),
                 Prim("clickElement", checkoutButton, NoTimeout, <<>>, FALSE, dom))

continueShopping ==
  /\ PageIdle
  /\ StartMethod(CallWith("continueShopping", <<>>, dom),
                 Prim("clickElement", continueShoppingButton, NoTimeout, <<>>, FALSE, dom))

fillCheckoutInformation(checkoutInfo) ==
  /\ PageIdle
  /\ StartMethod(CallWith("fillCheckoutInformation", checkoutInfo, dom),
                 Prim("typeText", firstNameInput, NoTimeout, checkoutInfo[1], TRUE, dom))

continueToReview ==
  /\ PageIdle
  /\ StartMethod(CallWith("continueToReview", <<>>, dom),
                 Prim("clickElement", continueButton, NoTimeout, <<>>, FALSE, dom))

cancelCheckout ==
  /\ PageIdle
  /\ StartMethod(CallWith("cancelCheckout", <<>>, dom),
                 Prim("clickElement", cancelButton, NoTimeout, <<>>, FALSE, dom))

finishOrder ==
  /\ PageIdle
  /\ StartMethod(CallWith("finishOrder", <<>>, dom),
                 Prim("clickElement", finishButton, NoTimeout, <<>>, FALSE, dom))

completeCheckout(checkoutInfo) ==
  /\ PageIdle
  /\ StartMethod(CallWith("completeCheckout", checkoutInfo, dom),
                 Prim("clickElement", checkoutButton, NoTimeout, <<>>, FALSE, dom))

isOrderComplete ==
  /\ PageIdle
  /\ StartMethod(CallWith("isOrderComplete", <<>>, dom),
                 Prim("isElementDisplayed", completeHeader, NoTimeout, <<>>, FALSE, dom))

getCompletionMessage ==
  /\ PageIdle
  /\ StartMethod(CallWith("getCompletionMessage", <<>>, dom),
                 Prim("getElementText", completeHeader, NoTimeout, <<>>, FALSE, dom))

(***************************************************************************)
(* Reads of listed rows and computations on plain values.                  *)
(***************************************************************************)
NoCalc == [op |-> "none"]

\* the locators the four by-name methods build for one product name; ""
\* while a method has not built its locator
ByName(productName) ==
  [op |-> "byName", name |-> productName, add |-> "", remove |-> "", inCart |-> "",
   removeItem |-> ""]

\* the first statements of each by-name method: the id, then the locator
addProductToCartByName_locator ==
  /\ calc.op = "byName" /\ calc.add = ""
  /\ calc' = [calc EXCEPT !.add = addProductToCartByNameLocator(calc.name)]
  /\ UNCHANGED <<rows, labels, rd>>
  /\ UNCHANGED notRead

removeProductFromCartByName_locator ==
  /\ calc.op = "byName" /\ calc.remove = ""
  /\ calc' = [calc EXCEPT !.remove = removeProductFromCartByNameLocator(calc.name)]
  /\ UNCHANGED <<rows, labels, rd>>
  /\ UNCHANGED notRead

isProductInCart_locator ==
  /\ calc.op = "byName" /\ calc.inCart = ""
  /\ calc' = [calc EXCEPT !.inCart = isProductInCartLocator(calc.name)]
  /\ UNCHANGED <<rows, labels, rd>>
  /\ UNCHANGED notRead

removeItemFromCart_locator ==
  /\ calc.op = "byName" /\ calc.removeItem = ""
  /\ calc' = [calc EXCEPT !.removeItem = removeItemFromCartLocator(calc.name)]
  /\ UNCHANGED <<rows, labels, rd>>
  /\ UNCHANGED notRead

\* an element inside a row, or a summary label: absent, or showing a text
NoText == <<>>
Showing(t) == <<t>>

\* a listed row (.inventory_item, .cart_item) and the four elements read in it
Row(name, description, price, quantity) ==
  [name |-> name, description |-> description, price |-> price, quantity |-> quantity]

\* the review page's summary labels; none of them on the other pages
NoLabels == [subtotal |-> NoText, tax |-> NoText, total |-> NoText]

\* what a read resolved with or rejected with
NoValue ==
  [kind |-> "none", items |-> <<>>, num |-> Num(0), summary |-> <<>>, bool |-> FALSE,
   err |-> ""]
Items(list) == [NoValue EXCEPT !.kind = "items", !.items = list]
OneItem(item) == [NoValue EXCEPT !.kind = "item", !.items = <<item>>]
Amount(n) == [NoValue EXCEPT !.kind = "number", !.num = n]
Summary(list, amounts) == [NoValue EXCEPT !.kind = "summary", !.items = list, !.summary = amounts]
Verdict(b) == [NoValue EXCEPT !.kind = "boolean", !.bool = b]
Rejected(e) == [NoValue EXCEPT !.kind = "error", !.err = e]

\* rd: the method reading, where it stands, the row or label it is at, the
\* items pushed and the label amounts parsed so far, and what it gave
NoRead ==
  [op |-> "none", stage |-> "idle", i |-> 0, items |-> <<>>, texts |-> <<>>,
   result |-> NoValue]

ReadIdle == rd.stage \in {"idle", "done"}

Finished(r, value) == [r EXCEPT !.stage = "done", !.result = value]

\* nothing computed and nothing read yet; the page lists the rows r
InitRead(r) ==
  /\ calc = NoCalc
  /\ rows = r
  /\ labels = NoLabels
  /\ rd = NoRead

\* getAllProducts, one pass of the loop body: the product pushed; none when
\* a findElement rejects (the catch continues)
getAllProductsRow(row) ==
  IF row.name = NoText \/ row.description = NoText \/ row.price = NoText THEN <<>>
  ELSE <<[name |-> row.name[1], description |-> row.description[1],
          priceText |-> row.price[1],
          price |-> parseFloat(ReplaceFirstDollar(row.price[1]))]>>

\* the same loop body with the dollar sign left in the price text
getCartItemsRowKeepsDollar(row) ==
  IF row.name = NoText \/ row.description = NoText \/ row.price = NoText
     \/ row.quantity = NoText
  THEN <<>>
  ELSE <<[name |-> row.name[1], description |-> row.description[1],
          price |-> parseFloat(row.price[1]),
          quantity |-> parseInt(row.quantity[1])]>>

\* getCartItems, one pass of the loop body: the item pushed; none when a
\* findElement rejects (the catch continues)
getCartItemsRow(row) ==
  IF row.name = NoText \/ row.description = NoText \/ row.price = NoText
     \/ row.quantity = NoText
  THEN <<>>
  ELSE <<[name |-> row.name[1], description |-> row.description[1],
          price |-> parseFloat(ReplaceFirstDollar(row.price[1])),
          quantity |-> parseInt(row.quantity[1])]>>

\* the reduce callback that lets the later of two equally priced products win
LaterWinsTies(product, max) == ~LessThan(product.price, max.price)

\* the reduce callbacks of getMostExpensiveProduct / getLeastExpensiveProduct
MoreExpensive(product, max) == GreaterThan(product.price, max.price)
LessExpensive(product, min) == LessThan(product.price, min.price)

\* products.reduce(callback) without an initial value: the first product is
\* the first accumulator
RECURSIVE mostExpensiveFrom(_, _)
mostExpensiveFrom(max, products) ==
  IF products = <<>> THEN max
  ELSE mostExpensiveFrom(IF MoreExpensive(Head(products), max) THEN Head(products) ELSE max,
                         Tail(products))

RECURSIVE leastExpensiveFrom(_, _)
leastExpensiveFrom(min, products) ==
  IF products = <<>> THEN min
  ELSE leastExpensiveFrom(IF LessExpensive(Head(products), min) THEN Head(products) ELSE min,
                          Tail(products))

\* items.reduce((sum, item) => sum + (item.price * item.quantity), 0)
RECURSIVE sumFrom(_, _)
sumFrom(sum, items) ==
  IF items = <<>> THEN sum
  ELSE sumFrom(Plus(sum, Times(Head(items).price, Head(items).quantity)), Tail(items))

\* the values verifyOrderCalculations can return for a summary's items and
\* its subtotal, tax and total
verifyOrderCalculationsValues(items, amounts) ==
  LET expectedSubtotal == sumFrom(Num(0), items)
      calculatedTotal == Plus(amounts[1], amounts[2])
  IN {subtotalMatch /\ totalMatch :
        subtotalMatch \in Within(amounts[1], expectedSubtotal),
        totalMatch \in Within(amounts[3], calculatedTotal)}

ProductReads == {"getAllProducts", "getMostExpensiveProduct", "getLeastExpensiveProduct"}

\* the labels getOrderSummary reads, in its order
SummaryLabels == <<"subtotal", "tax", "total">>

\* what the method does once the loop over the rows has ended
AfterRows(r) ==
  CASE r.op \in {"getAllProducts", "getCartItems"} -> Finished(r, Items(r.items))
    [] r.op = "getMostExpensiveProduct" ->
         IF r.items = <<>> THEN Finished(r, Rejected("TypeError"))
         ELSE Finished(r, OneItem(mostExpensiveFrom(Head(r.items), Tail(r.items))))
    [] r.op = "getLeastExpensiveProduct" ->
         IF r.items = <<>> THEN Finished(r, Rejected("TypeError"))
         ELSE Finished(r, OneItem(leastExpensiveFrom(Head(r.items), Tail(r.items))))
    [] r.op = "calculateExpectedSubtotal" -> Finished(r, Amount(sumFrom(Num(0), r.items)))
    [] OTHER -> [r EXCEPT !.stage = "labels", !.i = 1]

\* what the method can do once its last label is parsed
AfterLabels(r) ==
  IF r.op = "getOrderSummary" THEN {Finished(r, Summary(r.items, r.texts))}
  ELSE {Finished(r, Verdict(b)) : b \in verifyOrderCalculationsValues(r.items, r.texts)}

StartRead(name) ==
  /\ rd' = [NoRead EXCEPT !.op = name, !.stage = "findElements"]
  /\ UNCHANGED <<calc, rows, labels>>
  /\ UNCHANGED notRead

getAllProducts ==
  /\ ReadIdle
  /\ StartRead("getAllProducts")

getMostExpensiveProduct ==
  /\ ReadIdle
  /\ StartRead("getMostExpensiveProduct")

getLeastExpensiveProduct ==
  /\ ReadIdle
  /\ StartRead("getLeastExpensiveProduct")

getCartItems ==
  /\ ReadIdle
  /\ StartRead("getCartItems")

calculateExpectedSubtotal ==
  /\ ReadIdle
  /\ StartRead("calculateExpectedSubtotal")

getOrderSummary ==
  /\ ReadIdle
  /\ StartRead("getOrderSummary")

verifyOrderCalculations ==
  /\ ReadIdle
  /\ StartRead("verifyOrderCalculations")

\* BasePage.findElements settles: the rows, or an error when no row shows up
\* within the timeout or the driver call rejects
findElements_settled ==
  /\ rd.stage = "findElements"
  /\ \E ok \in BOOLEAN :
       rd' = IF ok /\ rows # <<>> THEN [rd EXCEPT !.stage = "rows", !.i = 1]
             ELSE Finished(rd, Rejected("Failed to find elements"))
  /\ UNCHANGED <<calc, rows, labels>>
  /\ UNCHANGED notRead

\* one pass of the for loop: the row's elements are read and the item is
\* pushed, or a read rejects and the row is skipped; after the last row the
\* rest of the method up to its next await
readRow ==
  /\ rd.stage = "rows"
  /\ \E ok \in BOOLEAN :
       LET row == rows[rd.i]
           pushed == IF ~ok THEN <<>>
                     ELSE IF rd.op \in ProductReads THEN getAllProductsRow(row)
                     ELSE getCartItemsRow(row)
           r == [rd EXCEPT !.items = @ \o pushed]
       IN rd' = IF rd.i < Len(rows) THEN [r EXCEPT !.i = @ + 1] ELSE AfterRows(r)
  /\ UNCHANGED <<calc, rows, labels>>
  /\ UNCHANGED notRead

\* getOrderSummary, one label: getElementText, the characters other than
\* digits and points taken out, parseFloat; after the last label the rest of
\* the method
readLabel ==
  /\ rd.stage = "labels"
  /\ \E ok \in BOOLEAN :
       LET text == labels[SummaryLabels[rd.i]]
           r == [rd EXCEPT !.texts = Append(@, parseFloat(KeepDigitsAndPoints(text[1])))]
       IN IF ~ok \/ text = NoText
          THEN rd' = Finished(rd, Rejected("Failed to get text"))
          ELSE IF rd.i < Len(SummaryLabels) THEN rd' = [r EXCEPT !.i = @ + 1]
          ELSE rd' \in AfterLabels(r)
  /\ UNCHANGED <<calc, rows, labels>>
  /\ UNCHANGED notRead

(***************************************************************************)
(* Configuration: the singleton built from process.env on first access.    *)
(***************************************************************************)

\* an optional string: <<>> is undefined, <<s>> is the string s
undefined == <<>>
Some(str) == <<str>>

\* `a || b` on an optional string: b when a is undefined or ''
OrElse(a, b) == IF a = undefined \/ a = Some("") THEN b ELSE a[1]

NoInstance == [loaded |-> FALSE]

NoEnv == [BASE_URL |-> undefined, BROWSER |-> undefined, HEADLESS |-> undefined,
          CI |-> undefined]

\* loadConfig: the settings for the environment e
loadConfig(e) ==
  LET browser == OrElse(e.BROWSER, "chrome")
      headless == e.HEADLESS = Some("true") \/ e.CI = Some("true")
  IN
  [baseUrl |-> OrElse(e.BASE_URL, baseUrlDefault),
   browser |-> [name |-> browser,
                headless |-> headless,
                windowSize |-> [width |-> 1920, height |-> 1080]],
   timeout |-> [implicit |-> 10000, explicit |-> explicit, pageLoad |-> 30000],
   screenshots |-> [onFailure |-> TRUE, onSuccess |-> FALSE,
                    path |-> "./reports/screenshots"]]

\* the result of a utility call: what it returned, or that it raised
NoUtil == [op |-> "none", args |-> <<>>, raised |-> FALSE, val |-> <<>>]
Gave(op, args, val) == [op |-> op, args |-> args, raised |-> FALSE, val |-> val]
Raised(op, args) == [op |-> op, args |-> args, raised |-> TRUE, val |-> <<>>]

NoCapture == [stage |-> 0, testName |-> "", timestamp |-> "", wrote |-> <<>>,
              raised |-> FALSE, val |-> <<>>]

\* the run before anything was imported: no configuration instance, an empty
\* screenshot directory, no result recorded
InitRun ==
  /\ env = NoEnv
  /\ instance = NoInstance
  /\ shots = <<>>
  /\ cap = NoCapture
  /\ testResults = <<>>
  /\ util = NoUtil

\* the process environment changes: variable k is set to v, or unset
setEnv(k, v) ==
  /\ env' = [env EXCEPT ![k] = v]
  /\ UNCHANGED <<instance, shots, cap, testResults, util>>
  /\ UNCHANGED notRun

\* Configuration.instance after getInstance()
AlwaysConstructs(inst, e) == [loaded |-> TRUE, config |-> loadConfig(e)]
InstanceAfterGet(inst, e) ==
  IF ~inst.loaded THEN [loaded |-> TRUE, config |-> loadConfig(e)] ELSE inst

\* Configuration.getInstance(), which the module runs when first imported
getInstance ==
  /\ instance' = InstanceAfterGet(instance, env)
  /\ util' = Gave("getInstance", <<>>, <<>>)
  /\ UNCHANGED <<env, shots, cap, testResults>>
  /\ UNCHANGED notRun

\* config.getConfig() on the exported instance
getConfig ==
  /\ instance.loaded
  /\ util' = Gave("getConfig", <<>>, <<instance.config>>)
  /\ UNCHANGED <<env, instance, shots, cap, testResults>>
  /\ UNCHANGED notRun

\* config.getBrowserConfig() on the exported instance
getBrowserConfig ==
  /\ instance.loaded
  /\ util' = Gave("getBrowserConfig", <<>>, <<instance.config.browser>>)
  /\ UNCHANGED <<env, instance, shots, cap, testResults>>
  /\ UNCHANGED notRun

(***************************************************************************)
(* ScreenshotUtils: the evidence files of a failed test.                   *)
(***************************************************************************)

\* [a-z0-9] with the i flag
IsAlphanumeric(c) ==
  \/ IsDigit(c)
  \/ \E i \in 1..Len(LowerCase) : c \in {CharAt(LowerCase, i), CharAt(UpperCase, i)}

\* s.replace(/[^a-z0-9]/gi, by)
RECURSIVE ReplaceNonAlphanumerics(_, _)
ReplaceNonAlphanumerics(s, by) ==
  IF s = "" THEN ""
  ELSE (IF IsAlphanumeric(CharAt(s, 1)) THEN CharAt(s, 1) ELSE by)
         \o ReplaceNonAlphanumerics(From(s, 2), by)

\* s.replace(/[:.]/g, by)
RECURSIVE ReplaceColonsAndDots(_, _)
ReplaceColonsAndDots(s, by) ==
  IF s = "" THEN ""
  ELSE (IF CharAt(s, 1) \in {":", "."} THEN by ELSE CharAt(s, 1))
         \o ReplaceColonsAndDots(From(s, 2), by)

\* `testName.replace(/[^a-z0-9]/gi, '_').toLowerCase()`
sanitizeKeepsCase(testName) == ReplaceNonAlphanumerics(testName, "_")
sanitize(testName) == toLowerCase(ReplaceNonAlphanumerics(testName, "_"))

\* config screenshots.path, and the literal of findScreenshotForTest
screenshotDir == "./reports/screenshots"

\* path.join(dir, file): the segments joined and normalized, which drops a
\* leading './'
pathJoin(dir, file) ==
  (IF Len(dir) >= 2 /\ SubSeq(dir, 1, 2) = "./" THEN From(dir, 3) ELSE dir) \o "/" \o file

\* the titles of the tests that fail, and the instants `new Date()` gives
TestTitles == {"Login", "Login works", "Café"}
Instants == {"2024-01-01T10:00:00.000Z", "2024-01-01T10:00:00.001Z"}

Sanitized == [t \in TestTitles |-> sanitize(t)]
Timestamp == [now \in Instants |-> ReplaceColonsAndDots(now, "-")]

\* the names captureFailureEvidence gives its three files
EvidenceName(sanitizedName, part, timestamp, extension) ==
  sanitizedName \o "_" \o part \o "_" \o timestamp \o "." \o extension
screenshotName(c) == EvidenceName(Sanitized[c.testName], "failure", c.timestamp, "png")
pageSourceName(c) == EvidenceName(Sanitized[c.testName], "source", c.timestamp, "html")
infoName(c) == EvidenceName(Sanitized[c.testName], "info", c.timestamp, "json")

\* a file of the screenshot directory, and the test it was written for
File(name, testName) == [name |-> name, testName |-> testName]

\* the directory after writeFile(name): a file of that name is replaced
Written(files, name, testName) ==
  {f \in files : f.name # name} \cup {File(name, testName)}

NoDirectory == [exists |-> FALSE, files |-> {}]
Directory(files) == [exists |-> TRUE, files |-> files]

\* the awaited calls of captureFailureEvidence, in order
CaptureSteps ==
  <<"takeScreenshot", "writeFile png", "getPageSource", "writeFile html",
    "getCurrentUrl", "getCapabilities", "writeFile json">>

CaptureIdle == cap.stage = 0

\* captureFailureEvidence(driver, testName) up to `await driver.takeScreenshot()`:
\* the directory is created if missing (mkdir is not awaited: it may or may
\* not have completed when the first file is written), the timestamp and
\* the sanitized name are computed once
captureFailureEvidence(testName, now) ==
  /\ CaptureIdle
  /\ Cardinality(shots.files) + 3 <= MaxFiles
  /\ cap' = [stage |-> 1, testName |-> testName, timestamp |-> Timestamp[now],
             wrote |-> <<>>, raised |-> FALSE, val |-> <<>>]
  /\ shots' \in IF shots.exists THEN {shots} ELSE {shots, Directory({})}
  /\ UNCHANGED <<env, instance, testResults, util>>
  /\ UNCHANGED notRun

\* what the call returns once the last write succeeded
ReturnsAllThree(c) ==
  <<pathJoin(screenshotDir, screenshotName(c)), pathJoin(screenshotDir, pageSourceName(c)),
    pathJoin(screenshotDir, infoName(c))>>
CaptureReturn(c) ==
  <<pathJoin(screenshotDir, screenshotName(c)), pathJoin(screenshotDir, pageSourceName(c))>>

\* the file the awaited call at stage k writes, if it is a write
WritesAt(c, k) ==
  CASE k = 2 -> <<screenshotName(c)>>
    [] k = 4 -> <<pageSourceName(c)>>
    [] k = 7 -> <<infoName(c)>>
    [] OTHER -> <<>>

\* the awaited call settles: resolved, and a write has put its file into the
\* directory; or rejected, and the catch raises the wrapped error
capture_settled ==
  /\ cap.stage > 0
  /\ \E ok \in BOOLEAN :
       LET w == WritesAt(cap, cap.stage) IN
       IF ok /\ (w = <<>> \/ shots.exists)
       THEN /\ shots' = IF w = <<>> THEN shots
                        ELSE Directory(Written(shots.files, w[1], cap.testName))
            /\ cap' = IF cap.stage < Len(CaptureSteps)
                      THEN [cap EXCEPT !.stage = @ + 1, !.wrote = @ \o w]
                      ELSE [cap EXCEPT !.stage = 0, !.wrote = @ \o w,
                                       !.val = CaptureReturn(cap)]
       ELSE /\ cap' = [cap EXCEPT !.stage = 0, !.raised = TRUE]
            /\ UNCHANGED shots
  /\ UNCHANGED <<env, instance, testResults, util>>
  /\ UNCHANGED notRun

(***************************************************************************)
(* The hooks' findScreenshotForTest.                                       *)
(***************************************************************************)

\* the files `files.find(...)` can return: readdirSync lists the directory
\* in an order the file system chooses, so any file passing the test
Candidates(files, testName) ==
  {f \in files : Includes(f.name, Sanitized[testName]) /\ Includes(f.name, "failure")}

\* what findScreenshotForTest(testName) can return when readdirSync
\* succeeds (`listed`) or throws
findScreenshotForTestValues(dir, testName, listed) ==
  IF ~dir.exists THEN {undefined}
  ELSE IF ~listed THEN {undefined}
  ELSE IF Candidates(dir.files, testName) = {} THEN {undefined}
  ELSE {Some(pathJoin(screenshotDir, f.name)) : f \in Candidates(dir.files, testName)}

findScreenshotForTest(testName) ==
  /\ CaptureIdle
  /\ \E listed \in BOOLEAN :
       \E v \in findScreenshotForTestValues(shots, testName, listed) :
         util' = Gave("findScreenshotForTest", <<testName>>, v)
  /\ UNCHANGED <<env, instance, shots, cap, testResults>>
  /\ UNCHANGED notRun

(***************************************************************************)
(* ReportGenerator.                                                        *)
(***************************************************************************)

TestResult(suiteName, testName, status, duration, error, screenshot) ==
  [suiteName |-> suiteName, testName |-> testName, status |-> status,
   duration |-> duration, error |-> error, screenshot |-> screenshot]

\* `testResults.filter(t => t.status === status).length`
CountsEveryResult(results, status) == Len(results)
CountOf(results, status) == Len(SelectSeq(results, LAMBDA t : t.status = status))

\* prepareReportData(testResults, duration) under the environment e; the
\* timestamp, the platform and the node version it also stamps are left out
prepareReportData(results, duration, e) ==
  [totalTests |-> Len(results),
   passed |-> CountOf(results, "passed"),
   failed |-> CountOf(results, "failed"),
   skipped |-> CountOf(results, "skipped"),
   duration |-> duration,
   testResults |-> results,
   environment |-> [browser |-> OrElse(e.BROWSER, "chrome")]]

\* escapeHtml: the five special characters replaced by their entities
EscapeChar(c) ==
  CASE c = "&" -> "&amp;"
    [] c = "<" -> "&lt;"
    [] c = ">" -> "&gt;"
    [] c = "\"" -> "&quot;"
    [] c = "'" -> "&#039;"
    [] OTHER -> c

RECURSIVE escapeHtml(_)
escapeHtml(text) ==
  IF text = "" THEN "" ELSE EscapeChar(CharAt(text, 1)) \o escapeHtml(From(text, 2))

\* what the file system answers for a path: existsSync and readFileSync
FileStates == {"missing", "readable", "unreadable"}

\* the screenshot part of a card: the inlined image, the placeholder note
\* when readFileSync throws, nothing when the path is unset, empty or names
\* no existing file
ImagePartWithoutCatch(screenshot, fs) ==
  IF screenshot # undefined /\ screenshot # Some("") /\ fs[screenshot[1]] # "missing"
  THEN IF fs[screenshot[1]] = "readable" THEN "img" ELSE "throws"
  ELSE "none"
ImagePart(screenshot, fs) ==
  IF screenshot # undefined /\ screenshot # Some("") /\ fs[screenshot[1]] # "missing"
  THEN IF fs[screenshot[1]] = "readable" THEN "img" ELSE "Screenshot unavailable"
  ELSE "none"

\* one card of buildTestCards
TestCard(test, fs) ==
  [testName |-> escapeHtml(test.testName),
   suiteName |-> escapeHtml(test.suiteName),
   status |-> test.status,
   durationMs |-> test.duration,
   error |-> IF test.error # undefined /\ test.error # Some("")
             THEN Some(escapeHtml(test.error[1])) ELSE undefined,
   image |-> ImagePart(test.screenshot, fs)]

\* buildTestCards(testResults): the cards in the order of the results; an
\* exception of the callback leaves map
buildTestCards(results, fs) ==
  LET cards == [i \in 1..Len(results) |-> TestCard(results[i], fs)] IN
  IF \E i \in 1..Len(results) : cards[i].image = "throws"
  THEN Raised("buildTestCards", <<results, fs>>)
  ELSE Gave("buildTestCards", <<results, fs>>, cards)

(***************************************************************************)
(* The mocha root hooks.                                                   *)
(***************************************************************************)

NoTest == [exists |-> FALSE]
Test(title, parent, state, duration, err) ==
  [exists |-> TRUE, title |-> title, parent |-> parent, state |-> state,
   duration |-> duration, err |-> err]

\* the status afterEach records for a Mocha state
statusOfPendingAsFailed(state) == IF state = Some("passed") THEN "passed" ELSE "failed"
statusOf(state) ==
  IF state = Some("passed") THEN "passed"
  ELSE IF state = Some("failed") THEN "failed"
  ELSE "skipped"

\* the result afterEach builds for the test, `found` being what
\* findScreenshotForTest returned
afterEachResult(currentTest, found) ==
  TestResult(IF currentTest.parent = undefined THEN "Unknown Suite"
             ELSE OrElse(currentTest.parent, "Unknown Suite"),
             currentTest.title,
             statusOf(currentTest.state),
             IF currentTest.duration = undefined THEN 0 ELSE currentTest.duration[1],
             IF currentTest.state = Some("failed") /\ currentTest.err # undefined
             THEN currentTest.err ELSE undefined,
             IF currentTest.state = Some("failed") THEN found ELSE undefined)

\* afterEach: nothing without a current test, otherwise one result pushed
afterEach(currentTest) ==
  /\ Len(testResults) < MaxTests
  /\ util' = Gave("afterEach", <<currentTest>>, <<>>)
  /\ IF ~currentTest.exists
     THEN UNCHANGED testResults
     ELSE \E listed \in BOOLEAN :
            \E found \in IF currentTest.state = Some("failed")
                          THEN findScreenshotForTestValues(shots, currentTest.title, listed)
                          ELSE {undefined} :
              testResults' = Append(testResults, afterEachResult(currentTest, found))
  /\ UNCHANGED <<env, instance, shots, cap>>
  /\ UNCHANGED notRun

\* afterAll: the report data prepared from the list, the report written;
\* the catch logs a failure of either
afterAll(duration) ==
  /\ \E written \in BOOLEAN :
       util' = Gave("afterAll", <<written>>,
                    <<prepareReportData(testResults, duration, env)>>)
  /\ UNCHANGED <<env, instance, shots, cap, testResults>>
  /\ UNCHANGED notRun

(***************************************************************************)
(* Inputs.                                                                 *)
(***************************************************************************)

\* timeout overrides: omitted, 0, negative, one poll interval, Infinity
Timeouts == {NoTimeout, Ms(0), Ms(-1), Ms(PollMs), Infinity}

Usernames == {<<>>, <<"standard_user">>}
Passwords == {<<>>, <<"secret_sauce">>}

KeysFor(loc) == IF loc = usernameInput THEN Usernames ELSE Passwords

(***************************************************************************)
(* The base page primitives called one at a time on an element the page    *)
(* shows, hides and removes at will.                                       *)
(***************************************************************************)
InitSpecBasePage ==
  InitRun /\ InitManager({}, {TRUE}) /\ InitPage({usernameInput, "document"}) /\ InitRead(<<>>)

NextBasePage ==
  \/ \E t \in Timeouts : findElement(usernameInput, t)
  \/ \E t \in Timeouts : clickElement(usernameInput, t)
  \/ \E t \in Timeouts : waitForElement(usernameInput, t)
  \/ \E k \in Usernames, c \in BOOLEAN : typeText(usernameInput, k, c)
  \/ getElementText(usernameInput)
  \/ isElementDisplayed(usernameInput)
  \/ isElementEnabled(usernameInput)
  \/ \E t \in Timeouts : waitForElementToDisappear(usernameInput, t)
  \/ \E t \in Timeouts : waitForPageLoad(t)
  \/ driverWait
  \/ elementCommand
  \/ driverCallFails
  \/ pageChanges

SpecBasePage == InitSpecBasePage /\ [][NextBasePage]_vars

\* the event loop runs every timer and every settled driver call; nothing
\* makes a driver call fail or the page change
FairSpecBasePage == SpecBasePage /\ WF_vars(driverWait) /\ WF_vars(elementCommand)

(***************************************************************************)
(* The login page object on the login page; the error banner may be shown  *)
(* and hidden by the page.                                                 *)
(***************************************************************************)
InitSpecLogin == InitRun /\ InitManager({}, {TRUE}) /\ InitPage({errorMessage}) /\ InitRead(<<>>)

NextLogin ==
  \/ \E u \in Usernames, p \in Passwords : login(u, p)
  \/ \E l \in {usernameInput, passwordInput}, c \in BOOLEAN :
       \E k \in KeysFor(l) : typeText(l, k, c)
  \/ getErrorMessage
  \/ closeErrorMessage
  \/ navigateTo
  \/ driverWait
  \/ elementCommand
  \/ driverCallFails
  \/ pageChanges

SpecLogin == InitSpecLogin /\ [][NextLogin]_vars

(***************************************************************************)
(* The manager driven by one flow, as the test suites drive it.            *)
(***************************************************************************)
InitSpecManager == InitRun /\ InitManager({1}, BOOLEAN) /\ InitPage({}) /\ InitRead(<<>>)

NextManager == \E f \in Flows : ManagerStep(f)

SpecManager == InitSpecManager /\ [][NextManager]_vars

(***************************************************************************)
(* The manager shared by two flows whose calls interleave at the awaits.   *)
(***************************************************************************)
InitSpecTwoFlows == InitRun /\ InitManager(Flows, {TRUE}) /\ InitPage({}) /\ InitRead(<<>>)

\* the calls that read or write the stored handle across an await
NextTwoFlows ==
  \E f \in Flows :
    \/ createDriver(f)
    \/ createDriver_built(f)
    \/ createDriver_timeouts(f)
    \/ getDriver(f)
    \/ quitDriver(f)
    \/ quitDriver_finally(f)

SpecTwoFlows == InitSpecTwoFlows /\ [][NextTwoFlows]_vars

(***************************************************************************)
(* The login and products page objects from the login page on: login,      *)
(* cart operations by product name, logout.  The site may be served at     *)
(* another base URL, and the login logo may be shown and hidden.           *)
(***************************************************************************)
\* BASE_URL unset, or pointing at another deployment of the site
BaseUrls == {baseUrlDefault, "http://localhost:3000"}

InitSpecProducts ==
  /\ InitRun /\ InitManager({}, {TRUE})
  /\ InitPageAt("login", {}, BaseUrls, {loginLogo})
  /\ InitRead(<<>>)

NextProducts ==
  \/ login(<<"standard_user">>, <<"secret_sauce">>)
  \/ isOnLoginPage
  \/ logout
  \/ \E n \in ProductNames : addProductToCartByName(n)
  \/ \E n \in ProductNames : removeProductFromCartByName(n)
  \/ \E n \in ProductNames : isProductInCart(n)
  \/ getCartItemCount
  \/ driverWait
  \/ elementCommand
  \/ driverCommand
  \/ driverCallFails
  \/ pageChanges

SpecProducts == InitSpecProducts /\ [][NextProducts]_vars

(***************************************************************************)
(* The derivation of element ids from product names, on every name of a    *)
(* small alphabet and on the names the suites use.                         *)
(***************************************************************************)
InitSpecProductId ==
  /\ InitRun /\ InitManager({}, {TRUE})
  /\ InitPage({})
  /\ calc \in {ByName(n) : n \in NameInputs \cup ProductNames}
  /\ rows = <<>>
  /\ labels = NoLabels
  /\ rd = NoRead

NextProductId ==
  \/ addProductToCartByName_locator
  \/ removeProductFromCartByName_locator
  \/ isProductInCart_locator
  \/ removeItemFromCart_locator

SpecProductId == InitSpecProductId /\ [][NextProductId]_vars

(***************************************************************************)
(* Reads of the inventory list: all products, the most and the least       *)
(* expensive one.  The page lists up to MaxRows items, among them items     *)
(* of equal price, an item without a price element and an item whose       *)
(* price text is no number.                                                *)
(***************************************************************************)

\* the lists of up to n elements of S
ListsUpTo(S, n) == UNION {[1..k -> S] : k \in 0..n}

\* prices in cents and descriptions as the site lists them
PriceOf ==
  [n \in {"Sauce Labs Backpack", "Sauce Labs Bike Light", "Sauce Labs Bolt T-Shirt",
          "Test.allTheThings() T-Shirt (Red)"} |->
     CASE n = "Sauce Labs Backpack" -> 2999
       [] n = "Sauce Labs Bike Light" -> 999
       [] OTHER -> 1599]

DescriptionOf(n) == "About the " \o n

\* the row the site renders for a product: in the cart one of each
SiteRow(n) ==
  Row(Showing(n), Showing(DescriptionOf(n)), Showing(Money(PriceOf[n])), Showing("1"))

InventoryRows ==
  {SiteRow(n) : n \in DOMAIN PriceOf}
    \cup {[SiteRow("Sauce Labs Backpack") EXCEPT !.price = NoText],
          [SiteRow("Sauce Labs Bike Light") EXCEPT !.price = Showing("Sold out")]}

InitSpecCatalogue ==
  /\ InitRun /\ InitManager({}, {TRUE})
  /\ InitPage({})
  /\ calc = NoCalc
  /\ rows \in ListsUpTo(InventoryRows, MaxRows)
  /\ labels = NoLabels
  /\ rd = NoRead

NextCatalogue ==
  \/ getAllProducts
  \/ getMostExpensiveProduct
  \/ getLeastExpensiveProduct
  \/ findElements_settled
  \/ readRow

SpecCatalogue == InitSpecCatalogue /\ [][NextCatalogue]_vars

(***************************************************************************)
(* Reads of the cart rows and of the order summary.  The page is the       *)
(* site's rendering of a cart, or differs from one: a row without a price  *)
(* element, a price or a quantity that is no number, a summary one cent    *)
(* off, a label missing.                                                   *)
(***************************************************************************)

\* the carts' contents in page order
CartOrders == {c \in ListsUpTo(CatalogueNames, Len(Catalogue)) : \A i, j \in DOMAIN c : c[i] = c[j] => i = j}

ReviewRows(c) == [i \in DOMAIN c |-> SiteRow(c[i])]

RECURSIVE ItemTotal(_)
ItemTotal(c) == IF c = <<>> THEN 0 ELSE PriceOf[Head(c)] + ItemTotal(Tail(c))

\* the site's tax: eight percent, rounded to the cent
Tax(subtotal) == (subtotal * 8 + 50) \div 100

SummaryOf(subtotal, tax, total) ==
  [subtotal |-> Showing("Item total: " \o Money(subtotal)),
   tax |-> Showing("Tax: " \o Money(tax)),
   total |-> Showing("Total: " \o Money(total))]

ReviewLabels(c) ==
  SummaryOf(ItemTotal(c), Tax(ItemTotal(c)), ItemTotal(c) + Tax(ItemTotal(c)))

CartRows ==
  {SiteRow(n) : n \in CatalogueNames}
    \cup {[SiteRow("Sauce Labs Backpack") EXCEPT !.price = NoText],
          [SiteRow("Sauce Labs Bike Light") EXCEPT !.price = Showing("Free")],
          [SiteRow("Sauce Labs Bike Light") EXCEPT !.quantity = Showing("2")],
          [SiteRow("Sauce Labs Backpack") EXCEPT !.quantity = Showing("")]}

SummaryLabelsShown ==
  {ReviewLabels(c) : c \in CartOrders}
    \cup {NoLabels,
          SummaryOf(2998, 240, 3238),
          SummaryOf(3999, 320, 4319),
          SummaryOf(2999, 240, 3241),
          [ReviewLabels(<<"Sauce Labs Backpack">>) EXCEPT !.total = NoText],
          [ReviewLabels(<<"Sauce Labs Backpack">>) EXCEPT !.tax = Showing("Tax: none")]}

InitSpecCart ==
  /\ InitRun /\ InitManager({}, {TRUE})
  /\ InitPage({})
  /\ calc = NoCalc
  /\ rows \in ListsUpTo(CartRows, MaxRows)
  /\ labels \in SummaryLabelsShown
  /\ rd = NoRead

NextCart ==
  \/ getCartItems
  \/ calculateExpectedSubtotal
  \/ getOrderSummary
  \/ verifyOrderCalculations
  \/ findElements_settled
  \/ readRow
  \/ readLabel

SpecCart == InitSpecCart /\ [][NextCart]_vars

(***************************************************************************)
(* The cart page object from the cart page on: the checkout steps one by   *)
(* one and as the composite, with complete and incomplete checkout         *)
(* information, on a cart with and without a product.                      *)
(***************************************************************************)

\* checkoutInfo as <<firstName, lastName, postalCode>>, each the keys typed:
\* complete, and with one of the three left empty
CheckoutInfos ==
  {<<<<"Ada">>, <<"Lovelace">>, <<"12345">>>>,
   <<<<>>, <<"Lovelace">>, <<"12345">>>>,
   <<<<"Ada">>, <<>>, <<"12345">>>>,
   <<<<"Ada">>, <<"Lovelace">>, <<>>>>}

InitSpecCheckout ==
  /\ InitRun /\ InitManager({}, {TRUE})
  /\ \E c \in {{}, {"Sauce Labs Backpack"}} : InitPageAt("cart", c, {baseUrlDefault}, {})
  /\ InitRead(<<>>)

NextCheckout ==
  \/ goToCart
  \/ proceedToCheckout
  \/ continueShopping
  \/ \E info \in CheckoutInfos : fillCheckoutInformation(info)
  \/ continueToReview
  \/ cancelCheckout
  \/ finishOrder
  \/ \E info \in CheckoutInfos : completeCheckout(info)
  \/ isOrderComplete
  \/ getCompletionMessage
  \/ driverWait
  \/ elementCommand
  \/ driverCallFails

SpecCheckout == InitSpecCheckout /\ [][NextCheckout]_vars

(***************************************************************************)
(* The cart page object after a fresh login: products are added, the cart  *)
(* is opened, its rows are counted and removed.                            *)
(***************************************************************************)
InitSpecCartPage ==
  /\ InitRun /\ InitManager({}, {TRUE})
  /\ InitPageAt("products", {}, {baseUrlDefault}, {})
  /\ InitRead(<<>>)

NextCartPage ==
  \/ \E n \in CatalogueNames : addProductToCartByName(n)
  \/ goToCart
  \/ continueShopping
  \/ CartPage_getCartItemCount
  \/ isCartEmpty
  \/ \E n \in CatalogueNames : removeItemFromCart(n)
  \/ driverWait
  \/ elementCommand
  \/ driverCommand
  \/ driverCallFails

SpecCartPage == InitSpecCartPage /\ [][NextCartPage]_vars

(***************************************************************************)
(* The login suite: the login page is opened, a credential record is       *)
(* submitted with login, and the outcome is probed.                        *)
(***************************************************************************)
Credential(u, p, expectedResult, reason) ==
  [username |-> u, password |-> p, expectedResult |-> expectedResult, reason |-> reason]

\* the credential records the login suite submits, with the outcome and the
\* banner text it expects
UserTestData ==
  {Credential(<<"standard_user">>, <<"secret_sauce">>, "success", ""),
   Credential(<<"locked_out_user">>, <<"secret_sauce">>, "failure", "locked out"),
   Credential(<<"invalid_user">>, <<"secret_sauce">>, "failure", "do not match"),
   Credential(<<"standard_user">>, <<"wrong_password">>, "failure", "do not match"),
   Credential(<<>>, <<"secret_sauce">>, "failure", "Username is required"),
   Credential(<<"standard_user">>, <<>>, "failure", "Password is required"),
   Credential(<<>>, <<>>, "failure", "Username is required")}

InitSpecCredentials ==
  /\ InitRun /\ InitManager({}, {TRUE})
  /\ InitPageAt("login", {}, {baseUrlDefault}, {})
  /\ InitRead(<<>>)

NextCredentials ==
  \/ navigateTo
  \/ \E user \in UserTestData : login(user.username, user.password)
  \/ isOnProductsPage
  \/ isErrorDisplayed
  \/ getErrorMessage
  \/ driverWait
  \/ elementCommand
  \/ driverCommand
  \/ driverCallFails

SpecCredentials == InitSpecCredentials /\ [][NextCredentials]_vars

(***************************************************************************)
(* The configuration singleton while the process environment changes.      *)
(***************************************************************************)
EnvNames == {"BASE_URL", "BROWSER", "HEADLESS", "CI"}

\* values a variable is given: unset, empty, and strings the suites use
EnvValues(k) ==
  CASE k = "BASE_URL" -> {undefined, Some("http://localhost:3000")}
    [] k = "BROWSER" -> {undefined, Some(""), Some("chrome"), Some("firefox")}
    [] OTHER -> {undefined, Some(""), Some("true"), Some("false"), Some("TRUE"), Some("1")}

InitSpecConfig ==
  /\ InitManager({}, {TRUE}) /\ InitPage({}) /\ InitRead(<<>>)
  /\ env \in [EnvNames -> UNION {EnvValues(k) : k \in EnvNames}]
  /\ \A k \in EnvNames : env[k] \in EnvValues(k)
  /\ instance = NoInstance
  /\ shots = <<>>
  /\ cap = NoCapture
  /\ testResults = <<>>
  /\ util = NoUtil

NextConfig ==
  \/ \E k \in EnvNames : \E v \in EnvValues(k) : setEnv(k, v)
  \/ getInstance
  \/ getConfig
  \/ getBrowserConfig

SpecConfig == InitSpecConfig /\ [][NextConfig]_vars

(***************************************************************************)
(* Evidence captured for failing tests, and looked up by test title.       *)
(***************************************************************************)
InitSpecEvidence ==
  /\ InitManager({}, {TRUE}) /\ InitPage({}) /\ InitRead(<<>>)
  /\ env = NoEnv
  /\ instance = NoInstance
  /\ shots \in {NoDirectory, Directory({})}
  /\ cap = NoCapture
  /\ testResults = <<>>
  /\ util = NoUtil

NextEvidence ==
  \/ \E t \in TestTitles, now \in Instants : captureFailureEvidence(t, now)
  \/ capture_settled
  \/ \E t \in TestTitles : findScreenshotForTest(t)

SpecEvidence == InitSpecEvidence /\ [][NextEvidence]_vars

(***************************************************************************)
(* The root hooks over a run of at most MaxTests tests, the screenshot     *)
(* directory holding what earlier captures left.                           *)
(***************************************************************************)
\* the three files of a completed capture
EvidenceOf(testName, now) ==
  LET c == [testName |-> testName, timestamp |-> Timestamp[now]] IN
  {File(screenshotName(c), testName), File(pageSourceName(c), testName),
   File(infoName(c), testName)}

FirstInstant == CHOOSE now \in Instants : TRUE

HookDirectories ==
  {NoDirectory, Directory({}),
   Directory(EvidenceOf("Login works", FirstInstant)),
   Directory(EvidenceOf("Login", FirstInstant) \cup EvidenceOf("Login works", FirstInstant))}

\* the tests of the run: one without suite title and duration, one with
CurrentTests ==
  {NoTest} \cup
  {Test("Login", undefined, state, undefined, err) :
     state \in {undefined, Some("passed"), Some("failed"), Some("pending")},
     err \in {undefined, Some("expected false to be true")}} \cup
  {Test("Login works", Some("Login Tests"), state, Some(12), err) :
     state \in {undefined, Some("passed"), Some("failed"), Some("pending")},
     err \in {undefined, Some("expected false to be true")}}

\* `Date.now() - startTime`, in ms
Durations == {0, 1500}

InitSpecHooks ==
  /\ InitManager({}, {TRUE}) /\ InitPage({}) /\ InitRead(<<>>)
  /\ env = NoEnv
  /\ instance = NoInstance
  /\ shots \in HookDirectories
  /\ cap = NoCapture
  /\ testResults = <<>>
  /\ util = NoUtil

NextHooks ==
  \/ \E t \in CurrentTests : afterEach(t)
  \/ \E d \in Durations : afterAll(d)

SpecHooks == InitSpecHooks /\ [][NextHooks]_vars

(***************************************************************************)
(* The report generator on lists of at most MaxTests results.              *)
(***************************************************************************)
ScreenshotPaths == {"reports/screenshots/a.png", "reports/screenshots/b.png"}

\* results as the hooks record them: error text on failed tests only, the
\* screenshot unset, empty, or one of the paths
ReportResults ==
  {TestResult("Cart", "a<b", status, 12,
              IF status = "failed" THEN Some("'x' & \"y\"") ELSE undefined,
              screenshot) :
     status \in {"passed", "failed", "skipped"},
     screenshot \in {undefined, Some("")} \cup {Some(path) : path \in ScreenshotPaths}}

InitSpecReport ==
  /\ InitManager({}, {TRUE}) /\ InitPage({}) /\ InitRead(<<>>)
  /\ env = NoEnv
  /\ instance = NoInstance
  /\ shots = NoDirectory
  /\ cap = NoCapture
  /\ testResults \in ListsUpTo(ReportResults, MaxTests)
  /\ util = NoUtil

\* ReportGenerator.prepareReportData(testResults, duration)
prepareReportData_call(duration) ==
  /\ util' = Gave("prepareReportData", <<testResults, duration>>,
                  <<prepareReportData(testResults, duration, env)>>)
  /\ UNCHANGED <<env, instance, shots, cap, testResults>>
  /\ UNCHANGED notRun

\* buildTestCards(testResults) while the file system answers fs
buildTestCards_call(fs) ==
  /\ util' = buildTestCards(testResults, fs)
  /\ UNCHANGED <<env, instance, shots, cap, testResults>>
  /\ UNCHANGED notRun

NextReport ==
  \/ \E d \in Durations : prepareReportData_call(d)
  \/ \E fs \in [ScreenshotPaths -> FileStates] : buildTestCards_call(fs)

SpecReport == InitSpecReport /\ [][NextReport]_vars

\* no manager call is suspended: mlast is the call that has just completed
Quiet == \A f \in active : mflow[f].pc = "idle"

JustDone(name) == Quiet /\ mlast.op = name

\* C1: getDriver raises the not-initialized error exactly when no handle is
\* stored, in particular before the first createDriver and right after a
\* quitDriver; otherwise it returns the stored handle; it never changes it.
C1_GetDriver ==
  JustDone("getDriver") =>
    /\ driver = mlast.before
    /\ mlast.raised <=> (driver = NoDriver)
    /\ ~mlast.raised => mlast.val = driver /\ mlast.val \in Sessions
    /\ nextId = 0 => mlast.raised
    /\ mlast.prev = "quitDriver" => mlast.raised

C1_Witness ==
  /\ JustDone("getDriver")
  /\ mlast.raised
  /\ mlast.prev = "quitDriver"
  /\ nextId > 0

\* C2: quitDriver never raises and leaves no handle stored; with a handle
\* stored it calls quit() on exactly that session and clears the handle
\* whether quit() resolves or rejects; with none stored it calls quit() on
\* nothing and changes nothing, so a second consecutive quitDriver is a no-op.
C2_QuitDriver ==
  /\ [](JustDone("quitDriver") =>
         /\ ~mlast.raised
         /\ driver = NoDriver
         /\ mlast.before # NoDriver =>
              /\ mlast.quit = mlast.before
              /\ mlast.quit \in quitCalled
              /\ mlast.inner \in {"ok", "quit failed"}
         /\ mlast.before = NoDriver => mlast.quit = NoDriver /\ mlast.inner = "none"
         /\ mlast.prev = "quitDriver" => mlast.before = NoDriver)
  /\ [][Quiet /\ driver = NoDriver /\ mlast'.op = "quitDriver" /\ Quiet'
          => UNCHANGED <<driver, live, quitCalled, nextId>>]_vars

C2_Witness ==
  /\ JustDone("quitDriver")
  /\ mlast.inner = "quit failed"
  /\ mlast.before # NoDriver
  /\ driver = NoDriver

\* C3: at most one session built by the manager is live at any time.
C3_AtMostOneLive == Cardinality(live) <= 1

\* C4: createDriver with a handle already stored stores the newly built
\* session in its place and calls quit() on nothing; getDriver then returns
\* the new session, and no session replaced this way is ever stored again or
\* has quit() called on it by the manager.
C4_CreateReplaces ==
  /\ \A s \in orphans : s \notin quitCalled /\ s # driver /\ s \in live
  /\ JustDone("createDriver") /\ ~mlast.raised /\ mlast.before # NoDriver =>
       /\ mlast.val = driver
       /\ mlast.val = nextId
       /\ mlast.val # mlast.before
       /\ mlast.before \in orphans
       /\ mlast.quit = NoDriver
  /\ JustDone("getDriver") /\ mlast.prev = "createDriver" /\ ~mlast.raised =>
       mlast.val = nextId

C4_Witness ==
  /\ JustDone("quitDriver")
  /\ mlast.quit = 2
  /\ orphans = {1}
  /\ 1 \in live
  /\ 1 \notin quitCalled

\* C5: captureFailureScreenshot never raises and never changes the stored
\* handle; it calls the evidence capture exactly when a handle is stored and
\* the on-failure policy is enabled, and swallows an error of the capture.
C5_CaptureFailure ==
  JustDone("captureFailureScreenshot") =>
    /\ ~mlast.raised
    /\ driver = mlast.before
    /\ mlast.captured <=> (mlast.before # NoDriver /\ onFailure)

C5_Witness ==
  /\ JustDone("captureFailureScreenshot")
  /\ mlast.captured
  /\ mlast.inner = "capture failed"
  /\ ~mlast.raised

(***************************************************************************)
(* Properties of the base page primitives and of the login page object.    *)
(***************************************************************************)

IsPrefix(a, b) == Len(a) <= Len(b) /\ \A i \in 1..Len(a) : a[i] = b[i]

\* the primitive called on its own that has just ended
Ended(name) == presult.call.name = "primitive" /\ presult.prim.name = name

\* the driver calls of a successful clickElement on L
ClickOrder(L) ==
  <<Event("findElement", L, <<>>, TRUE), Event("waitVisible", L, <<>>, TRUE),
    Event("waitEnabled", L, <<>>, TRUE), Event("click", L, <<>>, FALSE)>>

\* C6: clickElement dispatches the click only after the element was located,
\* then found visible, then found enabled; when any of the four driver calls
\* fails no click is dispatched after the failure and the error raised is the
\* cause wrapped once in 'Failed to click element <locator>'.
C6_ClickElement ==
  /\ pcall.name = "primitive" /\ prim.name = "clickElement" =>
       IsPrefix(plog, SubSeq(ClickOrder(prim.loc), 1, 3))
  /\ Ended("clickElement") =>
       LET L == presult.prim.loc
           err == presult.res.err
       IN
       /\ presult.res.kind \in {"ok", "error"}
       /\ presult.res.kind = "ok" => plog = ClickOrder(L)
       /\ presult.res.kind = "error" =>
            /\ IsPrefix(plog, SubSeq(ClickOrder(L), 1, 3))
            /\ Len(err) >= 2
            /\ err[1] = Frame("Failed to click element", L)
            /\ \A i \in 2..Len(err) : err[i].msg # "Failed to click element"

\* the click itself failed, after the three waits had succeeded
C6_Witness ==
  /\ Ended("clickElement")
  /\ presult.res.kind = "error"
  /\ Len(plog) = 3

WaitPrimitives ==
  {"findElement", "waitForElement", "clickElement", "typeText", "getElementText",
   "waitForElementToDisappear", "waitForPageLoad"}

\* C7 as claimed: every wait primitive that was called returns or raises,
\* whatever the timeout override and however the page behaves.
C7_EveryWaitEnds ==
  \A n \in WaitPrimitives :
    (pcall.name = "primitive" /\ prim.name = n) ~> (PageIdle /\ Ended(n))

\* C7, amended: every wait primitive called with a finite timeout override
\* (none, 0, negative, positive) returns or raises, however the page
\* behaves, in particular when the awaited condition never becomes true.
C7_FiniteWaitsEnd ==
  \A n \in WaitPrimitives :
    (pcall.name = "primitive" /\ prim.name = n /\ ~prim.timeout.inf)
      ~> (PageIdle /\ Ended(n))

\* a wait called with timeout 0 ended in a timeout
C7_Witness ==
  /\ presult.call.name = "primitive"
  /\ presult.prim.name \in WaitPrimitives
  /\ presult.prim.timeout = Ms(0)
  /\ presult.res.kind = "error"
  /\ presult.prim.elapsed >= explicit

\* C8: isElementDisplayed and isElementEnabled never raise; they return
\* true exactly when the element was located and the driver then reported
\* it displayed (enabled), and false in every other case.
C8_Probes ==
  \A n \in {"isElementDisplayed", "isElementEnabled"} :
    Ended(n) =>
      LET L == presult.prim.loc
          cmd == IF n = "isElementDisplayed" THEN "isDisplayed" ELSE "isEnabled"
      IN
      /\ presult.res.kind = "value"
      /\ presult.res.err = <<>>
      /\ presult.res.bool <=>
           plog = <<Event("findElement", L, <<>>, TRUE), Event(cmd, L, <<>>, TRUE)>>

\* the element was located and the driver call on it failed: false
C8_Witness ==
  /\ Ended("isElementDisplayed")
  /\ presult.res.kind = "value"
  /\ ~presult.res.bool
  /\ Len(plog) = 1

\* the driver calls of a successful login(u, p)
LoginOrder(u, p) ==
  <<Event("findElement", usernameInput, <<>>, TRUE),
    Event("waitVisible", usernameInput, <<>>, TRUE),
    Event("clear", usernameInput, <<>>, FALSE),
    Event("sendKeys", usernameInput, u, FALSE),
    Event("findElement", passwordInput, <<>>, TRUE),
    Event("waitVisible", passwordInput, <<>>, TRUE),
    Event("clear", passwordInput, <<>>, FALSE),
    Event("sendKeys", passwordInput, p, FALSE)>> \o ClickOrder(loginButton)

\* C9: typeText with clearFirst leaves the field holding exactly the text,
\* without it the text appended to what the field held; login(u, p) types u
\* into the username field, then p into the password field, each after
\* clearing it, and clicks Login only after both, so the site receives
\* exactly (u, p) whatever the fields held before.
C9_TypeTextLogin ==
  /\ Ended("typeText") /\ presult.res.kind = "ok" =>
       dom[presult.prim.loc].value =
         (IF presult.prim.clearFirst THEN <<>> ELSE presult.prim.was) \o presult.prim.keys
  /\ pcall.name = "login" =>
       IsPrefix(plog, SubSeq(LoginOrder(pcall.username, pcall.password), 1, 11))
  /\ presult.call.name = "login" =>
       LET u == presult.call.username
           p == presult.call.password
       IN
       /\ presult.res.kind \in {"ok", "error"}
       /\ presult.res.kind = "error" => IsPrefix(plog, SubSeq(LoginOrder(u, p), 1, 11))
       /\ presult.res.kind = "ok" =>
            /\ plog = LoginOrder(u, p)
            /\ submitted = <<u, p>>
            /\ page = "login" =>
                 dom[usernameInput].value = u /\ dom[passwordInput].value = p

\* a login that succeeded on fields that both held something else
C9_Witness ==
  /\ presult.call.name = "login"
  /\ presult.res.kind = "ok"
  /\ presult.call.was[1] \notin {<<>>, presult.call.username}
  /\ presult.call.was[2] \notin {<<>>, presult.call.password}
  /\ submitted = <<presult.call.username, presult.call.password>>

\* C10: getErrorMessage never raises; it returns the banner's text when the
\* probe found the banner displayed and the read of its text succeeded, and
\* '' otherwise.  closeErrorMessage clicks the close button only after the
\* probe found it displayed, and otherwise does nothing more and returns.
C10_ErrorBanner ==
  /\ presult.call.name = "getErrorMessage" =>
       /\ presult.res.kind = "value"
       /\ IF Len(plog) = 5
          THEN /\ plog[2] = Event("isDisplayed", errorMessage, <<>>, TRUE)
               /\ plog[5] = Event("getText", errorMessage, <<>>, FALSE)
               /\ presult.res.text = dom[errorMessage].text
          ELSE presult.res.text = ""
  /\ pcall.name = "closeErrorMessage" \/ presult.call.name = "closeErrorMessage" =>
       /\ \A i \in 1..Len(plog) : plog[i].loc = errorButton
       /\ \A i \in 1..Len(plog) :
            plog[i].ev = "click" =>
              i = 6 /\ plog[2] = Event("isDisplayed", errorButton, <<>>, TRUE)
  /\ presult.call.name = "closeErrorMessage"
       /\ ~(Len(plog) >= 2 /\ plog[2] = Event("isDisplayed", errorButton, <<>>, TRUE)) =>
       /\ presult.res = Ok
       /\ Len(plog) <= 2

\* the banner was found displayed, reading its text failed: ''
C10_Witness ==
  /\ presult.call.name = "getErrorMessage"
  /\ Len(plog) \in 2..4
  /\ plog[2] = Event("isDisplayed", errorMessage, <<>>, TRUE)
  /\ presult.res = Text("")
  /\ dom[errorMessage].text # ""

(***************************************************************************)
(* Properties of the login, products and cart page objects.                *)
(***************************************************************************)

\* C11: isOnLoginPage never raises and returns true exactly when the URL
\* contains 'saucedemo.com' and not 'inventory' and both the logo probe and
\* the login button probe reported displayed; a failing driver call or a
\* failed condition gives false.  It is false on the products page.
C11_IsOnLoginPage ==
  presult.call.name = "isOnLoginPage" =>
    /\ presult.res.kind = "value"
    /\ presult.res.bool <=>
         /\ Len(plog) = 5
         /\ plog[1].ev = "getCurrentUrl"
         /\ plog[3] = Event("isDisplayed", loginLogo, <<>>, TRUE)
         /\ plog[5] = Event("isDisplayed", loginButton, <<>>, TRUE)
         /\ Includes(CurrentUrl, "saucedemo.com")
         /\ ~Includes(CurrentUrl, "inventory")
    /\ page = "products" => ~presult.res.bool

\* after a login and a logout, on the site's own address: true
C11_Witness ==
  /\ presult.call.name = "isOnLoginPage"
  /\ presult.res = Bool(TRUE)
  /\ page = "login"
  /\ submitted # <<>>

\* s.split(/\s+/): the pieces of s between its runs of whitespace
RECURSIVE Pieces(_)
Pieces(s) ==
  IF \A i \in 1..Len(s) : ~IsWhitespace(CharAt(s, i)) THEN <<s>>
  ELSE LET i == CHOOSE i \in 1..Len(s) :
                  /\ IsWhitespace(CharAt(s, i))
                  /\ \A j \in 1..(i - 1) : ~IsWhitespace(CharAt(s, j))
       IN <<SubSeq(s, 1, i - 1)>> \o Pieces(SkipWhitespace(From(s, i)))

RECURSIVE JoinWith(_, _)
JoinWith(pieces, sep) ==
  IF Len(pieces) = 1 THEN pieces[1]
  ELSE pieces[1] \o sep \o JoinWith(Tail(pieces), sep)

\* per name: its pieces with the letter case folded
FoldedPieces == [n \in NameInputs \cup ProductNames |-> Pieces(toLowerCase(n))]

\* C12: for every product name the four by-name methods build their locator
\* from one id: the pieces of the lowercased name joined by single hyphens,
\* prefixed 'add-to-cart-' by addProductToCartByName and 'remove-' by the
\* other three; the id has neither whitespace nor an upper-case letter, and
\* names that differ only in letter case or in the length of their runs of
\* whitespace get the same id.
C12_DerivedId ==
  calc.op = "byName" =>
    LET id == JoinWith(FoldedPieces[calc.name], "-") IN
    /\ calc.add \in {"", "add-to-cart-" \o id}
    /\ calc.remove \in {"", "remove-" \o id}
    /\ calc.inCart \in {"", "remove-" \o id}
    /\ calc.removeItem \in {"", "remove-" \o id}
    /\ \A i \in 1..Len(id) :
         ~IsWhitespace(CharAt(id, i)) /\ LowerChar(CharAt(id, i)) = CharAt(id, i)
    /\ \A m \in NameInputs \cup ProductNames :
         FoldedPieces[m] = FoldedPieces[calc.name] /\ calc.remove # "" =>
           "remove-" \o ProductIdOf[m] = calc.remove

\* all four locators built for a name with capitals and a run of two spaces
C12_Witness ==
  /\ calc.op = "byName"
  /\ calc.name = "sauce labs  BACKPACK"
  /\ calc.add = "add-to-cart-sauce-labs-backpack"
  /\ calc.remove = "remove-sauce-labs-backpack"
  /\ calc.inCart = calc.remove
  /\ calc.removeItem = calc.remove

\* the name denotes the catalogue product n: equal up to letter case and to
\* the length of each run of whitespace
Canonical == [n \in ProductNames |-> ReplaceWhitespaceRuns(toLowerCase(n), " ")]

SameProduct(name, n) == Canonical[name] = Canonical[n]

InCart(name) == \E n \in cart : SameProduct(name, n)

\* C13: on the products page getCartItemCount never raises and returns the
\* number of products in the cart (0 when the badge is absent; 0 as well
\* when one of its driver calls failed), isProductInCart(name) is true
\* only for a product in the cart and, unless a driver call failed, for
\* every product in the cart; a successful add leaves the product in the
\* cart and a successful remove leaves it out.
C13_CartCount ==
  /\ presult.call.name = "getCartItemCount" /\ page = "products" =>
       /\ presult.res.kind = "value"
       /\ ~presult.res.num.nan
       /\ \/ presult.res.num.v = Cardinality(cart)
          \/ presult.res.num.v = 0 /\ Len(plog) < 5
  /\ presult.call.name = "isProductInCart" /\ page = "products" =>
       /\ presult.res.kind = "value"
       /\ presult.res.bool => InCart(presult.call.args[1])
       /\ InCart(presult.call.args[1]) /\ Len(plog) = 2 => presult.res.bool
  /\ presult.call.name = "addProductToCartByName" /\ presult.res.kind = "ok" =>
       InCart(presult.call.args[1])
  /\ presult.call.name = "removeProductFromCartByName" /\ presult.res.kind = "ok" =>
       ~InCart(presult.call.args[1])

\* both products added: the count read from the badge is 2
C13_Witness ==
  /\ presult.call.name = "getCartItemCount"
  /\ page = "products"
  /\ cart = CatalogueNames
  /\ presult.res.num = Num(2)

(***************************************************************************)
(* Properties of the reads of listed rows.                                 *)
(***************************************************************************)

\* the read `name` has ended and gave a value of this kind
ReadGave(name, kind) == rd.stage = "done" /\ rd.op = name /\ rd.result.kind = kind

PriceAt(i) == rd.items[i].price

\* a >= b and a <= b on JavaScript numbers
AtLeast(a, b) == ~a.nan /\ ~b.nan /\ a.v >= b.v
AtMost(a, b) == ~a.nan /\ ~b.nan /\ a.v <= b.v

\* the product returned is the first one of the products read that has its
\* price
EarliestWithItsPrice(i) ==
  /\ rd.result.items[1] = rd.items[i]
  /\ \A j \in 1..(i - 1) : PriceAt(j) # PriceAt(i)

AllPricesAreNumbers == \A j \in DOMAIN rd.items : ~PriceAt(j).nan

\* C14, as stated: for every non-empty list of products read from the page,
\* getMostExpensiveProduct returns a product whose price is >= every other
\* price and getLeastExpensiveProduct one whose price is <= every other, and
\* among products of the extreme price the earliest in page order.
C14_Extremes ==
  /\ ReadGave("getMostExpensiveProduct", "item") =>
       \E i \in DOMAIN rd.items :
         /\ EarliestWithItsPrice(i)
         /\ \A j \in DOMAIN rd.items \ {i} : AtLeast(PriceAt(i), PriceAt(j))
  /\ ReadGave("getLeastExpensiveProduct", "item") =>
       \E i \in DOMAIN rd.items :
         /\ EarliestWithItsPrice(i)
         /\ \A j \in DOMAIN rd.items \ {i} : AtMost(PriceAt(i), PriceAt(j))

\* C14, amended: the same for every non-empty list of products read from the
\* page in which every price is a number (no price text parsed to NaN).
C14_ExtremesOfNumbers ==
  /\ ReadGave("getMostExpensiveProduct", "item") /\ AllPricesAreNumbers =>
       \E i \in DOMAIN rd.items :
         /\ EarliestWithItsPrice(i)
         /\ \A j \in DOMAIN rd.items \ {i} : AtLeast(PriceAt(i), PriceAt(j))
  /\ ReadGave("getLeastExpensiveProduct", "item") /\ AllPricesAreNumbers =>
       \E i \in DOMAIN rd.items :
         /\ EarliestWithItsPrice(i)
         /\ \A j \in DOMAIN rd.items \ {i} : AtMost(PriceAt(i), PriceAt(j))

\* the most expensive product was asked for on a full list whose last two
\* products have different names and the same price, the highest one, and
\* the earlier of the two was returned
C14_Witness ==
  /\ ReadGave("getMostExpensiveProduct", "item")
  /\ AllPricesAreNumbers
  /\ Len(rd.items) = MaxRows
  /\ PriceAt(MaxRows - 1) = PriceAt(MaxRows)
  /\ rd.items[MaxRows - 1].name # rd.items[MaxRows].name
  /\ \A j \in DOMAIN rd.items : AtMost(PriceAt(j), PriceAt(MaxRows))
  /\ rd.result.items[1] = rd.items[MaxRows - 1]

\* C15: getCartItems never returns an item built from a row that fails to
\* parse; in particular every item returned has a price and a quantity
\* that are numbers.
C15_OnlyParsedRows ==
  ReadGave("getCartItems", "items") =>
    \A k \in DOMAIN rd.result.items :
      ~rd.result.items[k].price.nan /\ ~rd.result.items[k].quantity.nan

\* the sum of price times quantity over the first k items
RECURSIVE SumOver(_, _)
SumOver(items, k) ==
  IF k = 0 THEN Num(0)
  ELSE Plus(SumOver(items, k - 1), Times(items[k].price, items[k].quantity))

\* the page is the site's rendering of the cart c
Renders(c) == rows = ReviewRows(c) /\ labels = ReviewLabels(c)

\* C16: calculateExpectedSubtotal returns the sum of price times quantity
\* over the items getCartItems returned, and when the page is the site's
\* rendering of a cart and every row was read, that sum is within 0.01 of
\* the subtotal the site displays (the cart's item total, in cents).
C16_ExpectedSubtotal ==
  ReadGave("calculateExpectedSubtotal", "number") =>
    /\ rd.result.num = SumOver(rd.items, Len(rd.items))
    /\ \A c \in CartOrders :
         Renders(c) /\ Len(rd.items) = Len(rows) =>
           /\ Within(rd.result.num, Num(ItemTotal(c))) = {TRUE}
           /\ Within(rd.result.num, parseFloat(KeepDigitsAndPoints(labels.subtotal[1]))) = {TRUE}

\* the expected subtotal was computed on the site's rendering of a cart of
\* two products, both rows read
C16_Witness ==
  /\ ReadGave("calculateExpectedSubtotal", "number")
  /\ Renders(Catalogue)
  /\ Len(rd.items) = Len(Catalogue)
  /\ rd.result.num = Num(ItemTotal(Catalogue))

\* the two amounts are numbers less than a cent apart: the same amount
ApartByLessThanACent(a, b) == ~a.nan /\ ~b.nan /\ a.v = b.v

\* C17: verifyOrderCalculations returns true if and only if the displayed
\* subtotal differs from the sum of price times quantity over the listed
\* items by less than 0.01 and the displayed total differs from displayed
\* subtotal plus displayed tax by less than 0.01.
C17_VerifyOrderCalculations ==
  ReadGave("verifyOrderCalculations", "boolean") =>
    (rd.result.bool <=>
       /\ ApartByLessThanACent(rd.texts[1], SumOver(rd.items, Len(rd.items)))
       /\ ApartByLessThanACent(rd.texts[3], Plus(rd.texts[1], rd.texts[2])))

(***************************************************************************)
(* Properties of the checkout flow.                                        *)
(***************************************************************************)

\* the driver calls of a typeText with clearFirst, in order
TypeOrder(L, keys) ==
  <<Event("findElement", L, <<>>, TRUE), Event("waitVisible", L, <<>>, TRUE),
    Event("clear", L, <<>>, FALSE), Event("sendKeys", L, keys, FALSE)>>

\* the driver calls of the four steps, in order
CheckoutOrder(info) ==
  ClickOrder(checkoutButton)
    \o TypeOrder(firstNameInput, info[1]) \o TypeOrder(lastNameInput, info[2])
    \o TypeOrder(postalCodeInput, info[3])
    \o ClickOrder(continueButton)
    \o ClickOrder(finishButton)

\* the element each awaited call of the four steps acts on and the keys it types
CheckoutSteps(info) ==
  <<<<checkoutButton, <<>>>>, <<firstNameInput, info[1]>>, <<lastNameInput, info[2]>>,
    <<postalCodeInput, info[3]>>, <<continueButton, <<>>>>, <<finishButton, <<>>>>>>

\* driver calls of one awaited call
CallsPerStep == Len(ClickOrder(checkoutButton))

\* C18: completeCheckout(info) performs proceedToCheckout, then
\* fillCheckoutInformation(info) (first name, last name, postal code), then
\* continueToReview, then finishOrder; a step starts only after every driver
\* call of the steps before it succeeded; when a step fails the call ends
\* with that step's error and no later driver call is made; when none fails
\* exactly the calls of the four steps were made, in order.
C18_CompleteCheckout ==
  /\ pcall.name = "completeCheckout" =>
       /\ IsPrefix(plog, CheckoutOrder(pcall.args))
       /\ <<prim.loc, prim.keys>> = CheckoutSteps(pcall.args)[pcall.stage]
       /\ Len(plog) >= CallsPerStep * (pcall.stage - 1)
       /\ Len(plog) < CallsPerStep * pcall.stage
  /\ presult.call.name = "completeCheckout" =>
       LET order == CheckoutOrder(presult.call.args) IN
       /\ presult.res.kind \in {"ok", "error"}
       /\ presult.res.kind = "ok" => plog = order
       /\ presult.res.kind = "error" =>
            /\ IsPrefix(plog, SubSeq(order, 1, Len(order) - 1))
            /\ presult.res.err[1].loc =
                 CheckoutSteps(presult.call.args)[(Len(plog) \div CallsPerStep) + 1][1]

\* a completeCheckout whose four steps all succeeded
C18_Witness ==
  /\ presult.call.name = "completeCheckout"
  /\ presult.res.kind = "ok"
  /\ plog = CheckoutOrder(presult.call.args)

\* the CartPage operations that are one click, and the control each clicks
FlowControl ==
  [op \in {"proceedToCheckout", "continueShopping", "continueToReview", "cancelCheckout",
           "finishOrder"} |->
     CASE op = "proceedToCheckout" -> checkoutButton
       [] op = "continueShopping" -> continueShoppingButton
       [] op = "continueToReview" -> continueButton
       [] op = "cancelCheckout" -> cancelButton
       [] OTHER -> finishButton]

\* a CartPage operation's click takes the site to another page
Moves == page' # page /\ pcall.name # "goToCart"

\* the moves of the claim: from a page, by a click on a control, to a page
ClaimedEdges ==
  {<<"cart", checkoutButton, "checkout-info">>,
   <<"checkout-info", continueButton, "checkout-review">>,
   <<"checkout-review", finishButton, "checkout-complete">>,
   <<"checkout-info", cancelButton, "cart">>}

\* the moves that leave the checkout for the products page
LeavingEdges ==
  {<<"cart", continueShoppingButton, "products">>,
   <<"checkout-review", cancelButton, "products">>}

\* an operation called on a page without its control ended with an error and
\* left page and cart as they were
FailsWithoutControl ==
  \A op \in DOMAIN FlowControl :
    /\ presult.call.name = op
    /\ ~PageDom(presult.call.at, presult.call.had)[FlowControl[op]].present
    => /\ presult.res.kind = "error"
       /\ page = presult.call.at
       /\ cart = presult.call.had

InfoComplete(info) == \A k \in DOMAIN info : info[k] # <<>>

\* the call ended with an error because a driver call failed by itself
DriverFailed == presult.res.err[Len(presult.res.err)].msg = "WebDriverError"

\* C20: a completeCheckout called on the cart page with complete checkout
\* information ends on the completion page unless a driver call fails, and
\* one that returns has reached it; isOrderComplete never raises, returns
\* true only on the completion page, that is, after finishOrder's click
\* succeeded, and returns true there when its two driver calls succeed; the
\* completion message read there contains 'Thank you'.
C20_OrderComplete ==
  /\ presult.call.name = "completeCheckout" /\ presult.res.kind = "ok" =>
       /\ page = "checkout-complete"
       /\ presult.call.at = "cart"
       /\ InfoComplete(presult.call.args)
  /\ /\ presult.call.name = "completeCheckout"
     /\ presult.call.at = "cart"
     /\ InfoComplete(presult.call.args)
     /\ presult.res.kind = "error"
     => DriverFailed
  /\ presult.call.name = "isOrderComplete" =>
       /\ presult.res.kind = "value"
       /\ presult.res.bool => page = "checkout-complete"
       /\ page = "checkout-complete" /\ Len(plog) = Len(isElementDisplayedBody)
            => presult.res.bool
  /\ presult.call.name = "getCompletionMessage" /\ page = "checkout-complete"
       /\ presult.res.kind = "value"
       => Includes(presult.res.text, "Thank you")

\* a completeCheckout called on the cart page holding a product returned,
\* on the completion page
C20_Witness ==
  /\ presult.call.name = "completeCheckout"
  /\ presult.call.at = "cart"
  /\ presult.call.had # {}
  /\ presult.res.kind = "ok"
  /\ page = "checkout-complete"
  /\ dom[completeHeader].displayed

(***************************************************************************)
(* Properties of the cart page's row count.                                *)
(***************************************************************************)

RecordOf(call) ==
  CHOOSE user \in UserTestData :
    user.username = call.username /\ user.password = call.password

\* C22: for every credential record, a login(username, password) called on
\* the login page that returns has ended on the products page when the
\* record is marked success, and on the login page with the error banner
\* displayed when it is marked failure, the banner text containing the
\* record's reason; such a login raises only when a driver call fails.
\* isOnProductsPage never raises, returns true only on the products page,
\* and returns true there when its driver calls succeed; isErrorDisplayed
\* returns whether the banner is displayed when its driver calls succeed.
C22_Credentials ==
  /\ presult.call.name = "login" /\ presult.call.at = "login" =>
       LET user == RecordOf(presult.call) IN
       /\ presult.res.kind \in {"ok", "error"}
       /\ presult.res.kind = "error" => DriverFailed
       /\ presult.res.kind = "ok" /\ user.expectedResult = "success" =>
            page = "products"
       /\ presult.res.kind = "ok" /\ user.expectedResult = "failure" =>
            /\ page = "login"
            /\ dom[errorMessage].displayed
            /\ Includes(dom[errorMessage].text, user.reason)
  /\ presult.call.name = "isOnProductsPage" =>
       /\ presult.res.kind = "value"
       /\ presult.res.bool => page = "products"
       /\ page = "products" /\ Len(plog) = 1 + Len(isElementDisplayedBody)
            => presult.res.bool
  /\ presult.call.name = "isErrorDisplayed" /\ Len(plog) = Len(isElementDisplayedBody) =>
       /\ presult.res.kind = "value"
       /\ presult.res.bool = dom[errorMessage].displayed

\* the locked-out user's login returned on the login page, the fields having
\* held another record's credentials before
C22_Witness ==
  /\ presult.call.name = "login"
  /\ presult.call.at = "login"
  /\ presult.call.username = <<"locked_out_user">>
  /\ presult.call.was[2] = <<"wrong_password">>
  /\ presult.res.kind = "ok"
  /\ page = "login"
  /\ dom[errorMessage].text = "locked out"

(***************************************************************************)
(* Properties of the configuration.                                        *)
(***************************************************************************)

\* C26: the configuration is read from the environment once, when the
\* instance is first obtained: headless is true exactly when HEADLESS is
\* 'true' or CI is 'true' then, the browser name is BROWSER when set and not
\* empty and 'chrome' otherwise; no later step, in particular no change of
\* the environment, changes the instance, and getConfig and getBrowserConfig
\* return its values without raising.
C26_ReadOnce ==
  [][/\ instance.loaded => instance' = instance
     /\ ~instance.loaded /\ instance'.loaded =>
          /\ instance'.config.browser.headless
                <=> (env.HEADLESS = Some("true") \/ env.CI = Some("true"))
          /\ instance'.config.browser.name =
                (IF env.BROWSER \in {undefined, Some("")} THEN "chrome"
                 ELSE env.BROWSER[1])
     /\ util'.op = "getConfig" => ~util'.raised /\ util'.val = <<instance.config>>
     /\ util'.op = "getBrowserConfig" =>
          ~util'.raised /\ util'.val = <<instance.config.browser>>]_vars

\* getBrowserConfig returned headless with the default browser although
\* neither HEADLESS nor CI is 'true' now and BROWSER names firefox: the
\* values of the first access
C26_Witness ==
  /\ util.op = "getBrowserConfig"
  /\ util.val[1].headless
  /\ util.val[1].name = "chrome"
  /\ env.HEADLESS # Some("true")
  /\ env.CI = Some("false")
  /\ env.BROWSER = Some("firefox")

(***************************************************************************)
(* Properties of the report generator.                                     *)
(***************************************************************************)

\* the positions of the results with the given status
WithStatus(results, status) == {i \in 1..Len(results) : results[i].status = status}

\* C23: for every list of test results, prepareReportData returns
\* totalTests equal to the length of the list and passed, failed and skipped
\* equal to the numbers of results with that status, so that the three add
\* up to totalTests; the list is passed through unchanged and in order, and
\* the duration is the value given.
C23_Tally ==
  util.op = "prepareReportData" =>
    LET results == util.args[1]
        data == util.val[1]
    IN
    /\ ~util.raised
    /\ data.totalTests = Len(results)
    /\ data.passed = Cardinality(WithStatus(results, "passed"))
    /\ data.failed = Cardinality(WithStatus(results, "failed"))
    /\ data.skipped = Cardinality(WithStatus(results, "skipped"))
    /\ data.passed + data.failed + data.skipped = data.totalTests
    /\ data.testResults = results
    /\ data.duration = util.args[2]

\* a list of two results with different statuses was tallied
C23_Witness ==
  /\ util.op = "prepareReportData"
  /\ Len(util.args[1]) = MaxTests
  /\ util.val[1].failed = 1
  /\ util.val[1].skipped = 1
  /\ util.val[1].passed = 0
  /\ util.val[1].duration = 1500

\* C24: buildTestCards never raises because of a screenshot: a result whose
\* screenshot path is unset or names no existing file gets no image, one
\* whose file exists but cannot be read gets the placeholder note, one whose
\* file is read gets the image; every card is rendered, one per result, in
\* the order of the results.
C24_Cards ==
  util.op = "buildTestCards" =>
    LET results == util.args[1]
        fs == util.args[2]
        cards == util.val
    IN
    /\ ~util.raised
    /\ Len(cards) = Len(results)
    /\ \A i \in 1..Len(results) :
         LET shot == results[i].screenshot IN
         /\ cards[i].testName = escapeHtml(results[i].testName)
         /\ cards[i].status = results[i].status
         /\ shot = undefined => cards[i].image = "none"
         /\ shot # undefined /\ shot[1] \in ScreenshotPaths =>
              cards[i].image = (CASE fs[shot[1]] = "missing" -> "none"
                                  [] fs[shot[1]] = "unreadable" -> "Screenshot unavailable"
                                  [] fs[shot[1]] = "readable" -> "img")

\* two cards rendered, the first with the placeholder note for an unreadable
\* file, the second without image for a missing one
C24_Witness ==
  /\ util.op = "buildTestCards"
  /\ ~util.raised
  /\ Len(util.val) = MaxTests
  /\ util.val[1].image = "Screenshot unavailable"
  /\ util.val[MaxTests].image = "none"
  /\ util.args[1][MaxTests].screenshot \in {Some(path) : path \in ScreenshotPaths}

(***************************************************************************)
(* Properties of the evidence files.                                       *)
(***************************************************************************)

\* a captureFailureEvidence call has returned
Captured == cap.stage = 0 /\ ~cap.raised /\ cap.val # <<>>

\* letters of the titles: the ASCII letters, and the accented one
IsLetter(c) == (IsAlphanumeric(c) /\ ~IsDigit(c)) \/ c = "é"

\* the title lowercased, every character other than a letter or a digit
\* replaced by an underscore
RECURSIVE LettersAndDigits(_)
LettersAndDigits(s) ==
  IF s = "" THEN ""
  ELSE (IF IsLetter(CharAt(s, 1)) \/ IsDigit(CharAt(s, 1))
        THEN LowerChar(CharAt(s, 1)) ELSE "_") \o LettersAndDigits(From(s, 2))

LettersAndDigitsOf == [t \in TestTitles |-> LettersAndDigits(t)]

\* the sanitized names of the titles: lowercased, every character other than
\* an ASCII letter or a digit replaced by an underscore
SanitizedTitle ==
  [t \in TestTitles |->
     CASE t = "Login" -> "login"
       [] t = "Login works" -> "login_works"
       [] OTHER -> "caf_"]

\* the timestamps of the instants, ':' and '.' replaced by '-'
Stamps == {"2024-01-01T10-00-00-000Z", "2024-01-01T10-00-00-001Z"}

\* C25 as claimed: a successful captureFailureEvidence(testName) has written
\* exactly three files, all named <name>_failure_<timestamp> with the same
\* sanitized name and timestamp and the extensions png, html and json, the
\* name being the title lowercased with every character other than a letter
\* or a digit replaced by an underscore; it returns the png and html paths.
C25_AllNamedFailure ==
  Captured =>
    LET base == LettersAndDigitsOf[cap.testName] \o "_failure_" \o cap.timestamp IN
    /\ cap.wrote = <<base \o ".png", base \o ".html", base \o ".json">>
    /\ cap.val = <<"reports/screenshots/" \o base \o ".png",
                   "reports/screenshots/" \o base \o ".html">>

\* C25: a successful captureFailureEvidence(testName) has written exactly
\* three files into the screenshot directory, named
\* <name>_failure_<timestamp>.png, <name>_source_<timestamp>.html and
\* <name>_info_<timestamp>.json with the same sanitized name and the same
\* timestamp, the name being the title lowercased with every character
\* other than an ASCII letter or a digit replaced by an underscore; it
\* returns the paths of the png and the html.
C25_EvidenceFiles ==
  Captured =>
    LET name == SanitizedTitle[cap.testName]
        png == name \o "_failure_" \o cap.timestamp \o ".png"
        html == name \o "_source_" \o cap.timestamp \o ".html"
        json == name \o "_info_" \o cap.timestamp \o ".json"
    IN
    /\ cap.timestamp \in Stamps
    /\ cap.wrote = <<png, html, json>>
    /\ \A n \in {png, html, json} : File(n, cap.testName) \in shots.files
    /\ cap.val = <<"reports/screenshots/" \o png, "reports/screenshots/" \o html>>

\* the evidence of 'Login works' was captured at the second instant
C25_Witness ==
  /\ Captured
  /\ cap.testName = "Login works"
  /\ cap.wrote[1] = "login_works_failure_2024-01-01T10-00-00-001Z.png"
  /\ Len(cap.wrote) = 3

(***************************************************************************)
(* Properties of the root hooks.                                           *)
(***************************************************************************)

\* the failure screenshots in the directory that were captured for the test
FailureScreenshotsOf(files, testName) ==
  {f \in files : f.testName = testName
                  /\ \E stamp \in Stamps :
                       f.name = SanitizedTitle[testName] \o "_failure_" \o stamp \o ".png"}

\* a step of findScreenshotForTest
Looked ==
  /\ util'.op = "findScreenshotForTest"
  /\ UNCHANGED <<shots, cap>>

\* C30: findScreenshotForTest returns only a failure screenshot captured for
\* that same test, never a file captured for another test, and returns none
\* when no failure screenshot of the test exists or the directory is missing.
C30_SameTest ==
  [][Looked =>
       LET own == FailureScreenshotsOf(shots.files, util'.args[1]) IN
       /\ util'.val # undefined =>
            \E f \in own : util'.val = Some("reports/screenshots/" \o f.name)
       /\ own = {} \/ ~shots.exists => util'.val = undefined]_vars

\* what the result of a finished test must be, whatever the screenshot
Recorded(currentTest, result) ==
  /\ result.testName = currentTest.title
  /\ result.status = (CASE currentTest.state = Some("passed") -> "passed"
                         [] currentTest.state = Some("failed") -> "failed"
                         [] OTHER -> "skipped")
  /\ result.status # "failed" => result.error = undefined /\ result.screenshot = undefined
  /\ result.status = "failed" => result.error = currentTest.err

\* C29: afterEach appends exactly one result per finished test, at the end
\* of the list, and does nothing without a current test; the status is
\* 'passed' for the Mocha state passed, 'failed' for failed and 'skipped'
\* for every other state; the error text and the screenshot path are set
\* only for failed tests; nothing else changes the list; afterAll hands
\* exactly the list appended so far to prepareReportData, and does not
\* raise when writing the report fails.
C29_Hooks ==
  [][/\ util'.op = "afterEach" /\ ~util'.args[1].exists => UNCHANGED testResults
     /\ util'.op = "afterEach" /\ util'.args[1].exists =>
          /\ Len(testResults') = Len(testResults) + 1
          /\ SubSeq(testResults', 1, Len(testResults)) = testResults
          /\ Recorded(util'.args[1], testResults'[Len(testResults')])
     /\ util'.op = "afterAll" =>
          /\ UNCHANGED testResults
          /\ ~util'.raised
          /\ util'.val[1].testResults = testResults
          /\ util'.val[1].totalTests = Len(testResults)]_vars

\* afterAll handed on two results, the first failed with its error text, the
\* second skipped for a pending test, although the report was not written
C29_Witness ==
  /\ util.op = "afterAll"
  /\ util.args = <<FALSE>>
  /\ Len(testResults) = MaxTests
  /\ testResults[1].status = "failed"
  /\ testResults[1].error # undefined
  /\ testResults[MaxTests].status = "skipped"
  /\ util.val[1].testResults = testResults

(***************************************************************************)
(* Properties of the manager under interleaved and failing calls.          *)
(***************************************************************************)

\* a session that is live, not the stored handle, and never had quit() called
Unreferenced(s) == s \in live /\ s # driver /\ s \notin quitCalled

\* C27: with two flows on one manager, a quitDriver resuming from quit()
\* clears the handle whatever is stored by then, also a session another
\* flow's createDriver stored meanwhile; a createDriver resuming from
\* setTimeouts returns what is stored by then, which is no handle when a
\* quitDriver completed in between; and a live session the manager does not
\* reference and never called quit() on stays so for ever.
C27_HandleRaces ==
  [][\A f \in Flows :
       /\ mflow[f].pc = "quit" /\ mflow'[f].pc = "idle" => driver' = NoDriver
       /\ mflow[f].pc = "timeouts" /\ mflow'[f].pc = "idle" /\ ~mlast'.raised =>
            mlast'.op = "createDriver" /\ mlast'.val = driver
       /\ \A s \in Sessions : Unreferenced(s) => Unreferenced(s)']_vars

\* a createDriver has just returned no handle, no handle is stored, and the
\* session it built is live, was never replaced by a later build, and never
\* had quit() called on it
C27_Witness ==
  /\ JustDone("createDriver")
  /\ ~mlast.raised
  /\ mlast.val = NoDriver
  /\ driver = NoDriver
  /\ nextId \in live
  /\ nextId \notin quitCalled \cup orphans

\* C28: a createDriver whose build() fails leaves the stored handle as it
\* was; one whose session was built but whose setTimeouts fails raises with
\* the new session stored as the handle, so that a getDriver right after it
\* returns that session and a quitDriver right after it calls quit() on it.
C28_FailedCreate ==
  /\ [](JustDone("createDriver") /\ mlast.raised =>
          /\ mlast.inner \in {"build failed", "setTimeouts failed"}
          /\ mlast.inner = "build failed" => driver = mlast.before
          /\ mlast.inner = "setTimeouts failed" =>
               /\ driver = nextId
               /\ driver # mlast.before
               /\ driver \in live)
  /\ [](JustDone("createDriver") /\ mlast.inner = "setTimeouts failed" => mlast.raised)
  /\ [][JustDone("createDriver") /\ mlast.inner = "setTimeouts failed" =>
          /\ JustDone("getDriver")' => ~mlast'.raised /\ mlast'.val = nextId
          /\ (\E f \in Flows : mflow'[f].pc = "quit") =>
               nextId \in quitCalled'
                 /\ \A f \in Flows : mflow'[f].pc = "quit" => mflow'[f].target = nextId]_vars

\* a createDriver called with a handle stored has just raised because
\* setTimeouts failed, and the session it built is the stored handle
C28_Witness ==
  /\ JustDone("createDriver")
  /\ mlast.raised
  /\ mlast.inner = "setTimeouts failed"
  /\ mlast.before # NoDriver
  /\ driver = nextId
  /\ driver \in live

====
